---- MODULE Spec2Model ----
(***************************************************************************)
(* Verification model of the code-mapping engine of                        *)
(* prd-task-decomposition-system: the DependencyAnalyzer's graph (nodes,   *)
(* edges, addEdge, bounded traversal), buildDependencyGraph over an indexed *)
(* codebase, and the CodeMappingEngine life cycle.                          *)
(*                                                                         *)
(* Node ids are the template strings of the source (`file:${path}`,        *)
(* `function:${filePath}:${name}`), written as tuples <<"file", path>> and  *)
(* <<"function", filePath, name>>: the tuple keeps the parts the string is  *)
(* made of, and two ids are equal exactly when the strings are.            *)
(***************************************************************************)
EXTENDS Integers, Sequences, FiniteSets, TLC

VARIABLES
    dependencyGraph,   \* DependencyAnalyzer.dependencyGraph: [nodes, edges]
    call,              \* the call that has just run, and what it returned
    disk,              \* the files of the code base: location -> parsed content
    engineConfig,      \* CodeMappingEngine.config, handed to every module
    engine,            \* CodeMappingEngine: [codeIndex, dependencyGraph]
    semanticIndex,     \* SemanticAnalyzer.semanticIndex of the engine's analyzer
    globalSemanticAnalyzer,  \* global.semanticAnalyzer
    init,              \* the initialize call: [pc, path, cursor, calls, completed]
    input,             \* the arguments of the function under study
    indexer            \* CodebaseIndexer: the index objects and the calls in flight

graphVars == <<dependencyGraph, call>>
engineVars == <<disk, engineConfig, engine, semanticIndex, globalSemanticAnalyzer, init,
                input, indexer>>
vars == <<dependencyGraph, call, disk, engineConfig, engine, semanticIndex,
          globalSemanticAnalyzer, init, input, indexer>>

(***************************************************************************)
(* Bounds of the model.                                                    *)
(***************************************************************************)
MaxEdges == 3          \* edges the graph of Spec holds at most
MaxDepth == 2          \* largest options.depth a traversal is called with
MaxResultsIn == 2      \* largest explicit options.maxResults
MaxImports == 2        \* import/require statements of a.js at most
MaxCallSites == 2      \* call sites of a.js at most
MaxInitializeCalls == 1  \* initialize calls on one engine at most
MaxIndexCalls == 2       \* indexCodebase calls on one indexer at most
MaxWeight == 2           \* largest weight of a term in a vector
MaxLimit == 2            \* largest options.limit of findSimilarElements
MaxPlanFiles == 3        \* impacted files of a change plan, and maxImpactedFiles, at most
MaxRiskFiles == 21       \* impacted files of a risk level at most
MaxMergeEdges == 3       \* edges of a graph handed to the impact analysis at most
MaxCallEdges == 5        \* call edges of a graph getImpactAnalysis is asked about at most
MaxTraversalDepth == 5   \* the largest depth a step-by-step traversal is asked for

(***************************************************************************)
(* Small helpers for JavaScript objects.                                   *)
(***************************************************************************)
\* {} : the object without keys
EmptyObject == [k \in {} |-> 0]

\* { ...a, ...b } and Object.assign(a, b): the keys of b override those of a
ObjectAssign(a, b) ==
    [k \in (DOMAIN a) \cup (DOMAIN b) |-> IF k \in DOMAIN b THEN b[k] ELSE a[k]]

(***************************************************************************)
(* Node ids and nodes.                                                     *)
(***************************************************************************)
FileId(path) == <<"file", path>>
FunctionId(filePath, name) == <<"function", filePath, name>>

\* the ids Spec adds nodes for and asks about
NodeIds == { FileId("a.js"), FunctionId("a.js", "foo"), FunctionId("a.js", "bar") }

EdgeTypes == { "calls", "contains" }

\* the node object stored under an id
NodeOf(id) ==
    IF id[1] = "file" THEN [id |-> id, type |-> "file", path |-> id[2]]
    ELSE IF id[1] = "method"
    THEN [id |-> id, type |-> "method", filePath |-> id[2], className |-> id[3],
          name |-> id[4]]
    ELSE [id |-> id, type |-> id[1], filePath |-> id[2], name |-> id[3]]

(***************************************************************************)
(* The dependency graph.                                                   *)
(***************************************************************************)
\* resetDependencyGraph, and the graph the constructor makes
EmptyGraph == [nodes |-> [k \in {} |-> 0], edges |-> <<>>]

\* this.dependencyGraph.nodes[nodeId] = {...}
PutNode(G, id) ==
    [G EXCEPT !.nodes = [k \in (DOMAIN G.nodes) \cup {id} |->
                            IF k = id THEN NodeOf(id) ELSE G.nodes[k]]]

\* the truthiness test `this.dependencyGraph.nodes[id]`
HasNode(G, id) == id \in DOMAIN G.nodes

\* addEdge's guard: both endpoints are nodes
EndpointsExist_SourceOnly(G, sourceId, targetId) ==
    HasNode(G, sourceId)

EndpointsExist(G, sourceId, targetId) ==
    HasNode(G, sourceId) /\ HasNode(G, targetId)

\* the predicate of addEdge's edges.find
SameEdge_SourceTwice(edge, sourceId, targetId, type) ==
    edge.source = sourceId /\ edge.target = sourceId /\ edge.type = type

SameEdge(edge, sourceId, targetId, type) ==
    edge.source = sourceId /\ edge.target = targetId /\ edge.type = type

\* positions of the edges that edges.find can return
ExistingEdges(G, sourceId, targetId, type) ==
    { i \in 1..Len(G.edges) : SameEdge(G.edges[i], sourceId, targetId, type) }

\* addEdge(sourceId, targetId, type, metadata)
AddEdgeTo(G, sourceId, targetId, type, metadata) ==
    IF ~EndpointsExist(G, sourceId, targetId) THEN G
    ELSE LET found == ExistingEdges(G, sourceId, targetId, type) IN
         IF found # {}
         THEN LET i == CHOOSE j \in found : \A k \in found : j <= k IN
              [G EXCEPT !.edges[i].metadata = ObjectAssign(@, metadata)]
         ELSE [G EXCEPT !.edges = Append(@,
                  [source |-> sourceId, target |-> targetId, type |-> type,
                   metadata |-> ObjectAssign([weight |-> 1], metadata)])]

(***************************************************************************)
(* getNodeDependencies.                                                    *)
(***************************************************************************)
\* options.types: null, or an array of edge types
NoTypes == [isNull |-> TRUE, list |-> <<>>]
TypesArray(list) == [isNull |-> FALSE, list |-> list]

\* Array.prototype.includes
Includes(array, x) == \E i \in 1..Len(array) : array[i] = x

Defaults ==
    [direction |-> "outgoing", types |-> NoTypes, depth |-> 1, maxResults |-> 100]

\* the edges of nodeId in the requested direction, in edge-list order,
\* then restricted to options.types
RelatedEdges(G, nodeId, options) ==
    LET InDirection(edge) ==
            IF options.direction = "outgoing" THEN edge.source = nodeId
            ELSE IF options.direction = "incoming" THEN edge.target = nodeId
            ELSE edge.source = nodeId \/ edge.target = nodeId
        OfType(edge) == Includes(options.types.list, edge.type)
        edges == SelectSeq(G.edges, InDirection)
    IN IF ~options.types.isNull THEN SelectSeq(edges, OfType) ELSE edges

\* the node an edge leads to from the frame's node
TargetId(edge, options) ==
    IF options.direction = "incoming" THEN edge.source ELSE edge.target

\* the depth check that opens getDependenciesRecursive
DepthLimitReached_OffByOne(currentDepth, options) ==
    currentDepth > options.depth

DepthLimitReached(currentDepth, options) ==
    currentDepth >= options.depth

\* getDependenciesRecursive; st = [visited, dependencies] are the Set and the
\* Array shared by all frames of one call. ProcessEdges is the for loop of
\* one frame, from the i-th filtered edge on.
RECURSIVE GetDependenciesRecursive(_, _, _, _, _)
RECURSIVE ProcessEdges(_, _, _, _, _, _)
GetDependenciesRecursive(G, nodeId, options, st, currentDepth) ==
    IF DepthLimitReached(currentDepth, options) THEN st
    ELSE ProcessEdges(G, RelatedEdges(G, nodeId, options), 1, options,
                      [st EXCEPT !.visited = @ \cup {nodeId}], currentDepth)

ProcessEdges(G, filteredEdges, i, options, st, currentDepth) ==
    IF i > Len(filteredEdges) THEN st
    ELSE LET edge == filteredEdges[i]
             targetId == TargetId(edge, options)
         IN IF targetId \in st.visited \/ ~HasNode(G, targetId)
            THEN ProcessEdges(G, filteredEdges, i + 1, options, st, currentDepth)
            ELSE LET pushed == [st EXCEPT !.dependencies = Append(@,
                                   [id |-> targetId, node |-> G.nodes[targetId],
                                    edge |-> edge, depth |-> currentDepth + 1])]
                 IN IF Len(pushed.dependencies) >= options.maxResults
                    THEN pushed
                    ELSE ProcessEdges(G, filteredEdges, i + 1, options,
                             GetDependenciesRecursive(G, targetId, options,
                                                      pushed, currentDepth + 1),
                             currentDepth)

\* getNodeDependencies(nodeId, options): the returned array
GetNodeDependenciesOf(G, nodeId, options) ==
    LET config == ObjectAssign(Defaults, options) IN
    IF ~HasNode(G, nodeId) THEN <<>>
    ELSE GetDependenciesRecursive(G, nodeId, config,
             [visited |-> {}, dependencies |-> <<>>], 0).dependencies

\* the configuration the constructor gives a DependencyAnalyzer
AnalyzerConfig == [maxDepth |-> 3, includeNodeModules |-> FALSE]

\* getImpactAnalysis(nodeId) of an analyzer with the given configuration
GetImpactAnalysisOf(G, nodeId, config) ==
    LET impactedNodes ==
            GetNodeDependenciesOf(G, nodeId,
                [direction |-> "incoming", depth |-> config.maxDepth])
        dependencyNodes ==
            GetNodeDependenciesOf(G, nodeId,
                [direction |-> "outgoing", depth |-> config.maxDepth])
    IN [nodeId |-> nodeId,
        impactedNodes |-> impactedNodes,
        dependencyNodes |-> dependencyNodes,
        impactScore |-> Len(impactedNodes),
        dependencyScore |-> Len(dependencyNodes)]

(***************************************************************************)
(* Spec: the graph under any sequence of resets, node additions, addEdge   *)
(* calls and traversals.                                                   *)
(***************************************************************************)
NoCall == [made |-> FALSE, op |-> "none"]

Directions == { "outgoing", "incoming", "both" }
TypeFilters == { NoTypes, TypesArray(<<"calls">>) }
Metadatas == { EmptyObject, [weight |-> 1] }

\* the options objects a traversal is called with; maxResults is left out
\* in some, and the default applies
OptionsIn ==
    { [direction |-> d, types |-> t, depth |-> k] :
        d \in Directions, t \in TypeFilters, k \in 0..MaxDepth }
    \cup
    { [direction |-> d, types |-> t, depth |-> k, maxResults |-> m] :
        d \in Directions, t \in TypeFilters, k \in 0..MaxDepth, m \in 1..MaxResultsIn }

\* the engine-side variables are not used by Spec
Undefined == [isNull |-> TRUE]

\* no function is under study
NoInput == [of |-> "none"]

\* no CodebaseIndexer is under study
IndexerIdle == [heap |-> <<>>, codeIndex |-> 0, tasks |-> <<>>]

EngineIdle ==
    /\ disk = EmptyObject
    /\ engineConfig = [includeNodeModules |-> FALSE]
    /\ engine = [codeIndex |-> Undefined, dependencyGraph |-> Undefined]
    /\ semanticIndex = [files |-> {}, functions |-> {}, classes |-> {}]
    /\ globalSemanticAnalyzer = Undefined
    /\ init = [pc |-> "idle", calls |-> 0, completed |-> 0]
    /\ input = NoInput
    /\ indexer = IndexerIdle

Init ==
    /\ dependencyGraph = EmptyGraph
    /\ call = NoCall
    /\ EngineIdle

\* The analyzer's methods are synchronous: a call runs to its return before
\* the next one starts. `call` holds the call that has just run, with the
\* graph it found and what it returned, until Return hands control back.
ResetDependencyGraph ==
    /\ call = NoCall
    /\ dependencyGraph' = EmptyGraph
    /\ UNCHANGED <<call, engineVars>>

AddNode(id) ==
    /\ call = NoCall
    /\ dependencyGraph' = PutNode(dependencyGraph, id)
    /\ UNCHANGED <<call, engineVars>>

AddEdge(sourceId, targetId, type, metadata) ==
    /\ call = NoCall
    /\ \/ Len(dependencyGraph.edges) < MaxEdges
       \/ ExistingEdges(dependencyGraph, sourceId, targetId, type) # {}
       \/ ~EndpointsExist(dependencyGraph, sourceId, targetId)
    /\ dependencyGraph' = AddEdgeTo(dependencyGraph, sourceId, targetId, type, metadata)
    /\ call' = [made |-> TRUE, op |-> "addEdge",
                sourceId |-> sourceId, targetId |-> targetId, type |-> type,
                metadata |-> metadata, before |-> dependencyGraph]
    /\ UNCHANGED engineVars

GetNodeDependencies(nodeId, options) ==
    /\ call = NoCall
    /\ call' = [made |-> TRUE, op |-> "getNodeDependencies",
                nodeId |-> nodeId, options |-> options,
                config |-> ObjectAssign(Defaults, options),
                result |-> GetNodeDependenciesOf(dependencyGraph, nodeId, options)]
    /\ UNCHANGED <<dependencyGraph, engineVars>>

Return ==
    /\ call # NoCall
    /\ call' = NoCall
    /\ UNCHANGED <<dependencyGraph, engineVars>>

Next ==
    \/ ResetDependencyGraph
    \/ \E id \in NodeIds : AddNode(id)
    \/ \E s \in NodeIds, t \in NodeIds, ty \in EdgeTypes, m \in Metadatas :
          AddEdge(s, t, ty, m)
    \/ \E id \in NodeIds, o \in OptionsIn : GetNodeDependencies(id, o)
    \/ Return

Spec == Init /\ [][Next]_vars

(***************************************************************************)
(* Properties of getNodeDependencies (Spec).                               *)
(***************************************************************************)
Traversed == call.op = "getNodeDependencies"

\* nodes one edge away from n, in the requested direction and edge types,
\* read off the edge list independently of the traversal
Neighbours(G, n, config) ==
    { m \in DOMAIN G.nodes :
        \E i \in 1..Len(G.edges) :
            LET e == G.edges[i] IN
            /\ config.types.isNull \/ Includes(config.types.list, e.type)
            /\ \/ config.direction \in {"outgoing", "both"} /\ e.source = n /\ e.target = m
               \/ config.direction \in {"incoming", "both"} /\ e.target = n /\ e.source = m }

\* the ends of the paths of exactly k edges that start in S
RECURSIVE WalkEnds(_, _, _, _)
WalkEnds(G, S, k, config) ==
    IF k = 0 THEN S
    ELSE WalkEnds(G, UNION { Neighbours(G, n, config) : n \in S }, k - 1, config)

\* C1: the list returned by getNodeDependencies has at most maxResults
\* entries, for every graph, start node, direction, depth and maxResults >= 1.
C1_AtMostMaxResults ==
    Traversed => Len(call.result) <= call.config.maxResults

\* C2: in the list returned by one getNodeDependencies call no node id occurs
\* more than once and the start node id does not occur.
C2_NeverRevisits ==
    Traversed =>
        /\ \A i, j \in 1..Len(call.result) :
              i # j => call.result[i].id # call.result[j].id
        /\ \A i \in 1..Len(call.result) : call.result[i].id # call.nodeId

\* C3: every returned entry has 1 <= entry.depth <= options.depth and is
\* joined to the start node by a path of exactly entry.depth edges in the
\* requested direction and edge types; with depth <= 0 or an unknown start
\* node the result is empty.
C3_WithinDepth ==
    Traversed =>
        /\ \A i \in 1..Len(call.result) :
              LET entry == call.result[i] IN
              /\ 1 <= entry.depth
              /\ entry.depth <= call.config.depth
              /\ entry.id \in WalkEnds(dependencyGraph, {call.nodeId},
                                       entry.depth, call.config)
        /\ (call.config.depth <= 0 \/ ~HasNode(dependencyGraph, call.nodeId))
              => call.result = <<>>

\* an incoming, type-filtered traversal that returned an entry two hops away
C3_Witness ==
    /\ Traversed
    /\ call.config.direction = "incoming"
    /\ ~call.config.types.isNull
    /\ \E i \in 1..Len(call.result) : call.result[i].depth = 2

(***************************************************************************)
(* Properties of addEdge (Spec).                                           *)
(***************************************************************************)
AddedEdge == call.op = "addEdge"

\* C4: the source and the target of every edge are ids present in
\* graph.nodes, and an addEdge call with an absent endpoint leaves the edge
\* list unchanged.
C4_NoDanglingEdges ==
    /\ \A i \in 1..Len(dependencyGraph.edges) :
          /\ dependencyGraph.edges[i].source \in DOMAIN dependencyGraph.nodes
          /\ dependencyGraph.edges[i].target \in DOMAIN dependencyGraph.nodes
    /\ (AddedEdge /\ ( \/ call.sourceId \notin DOMAIN call.before.nodes
                       \/ call.targetId \notin DOMAIN call.before.nodes ))
          => dependencyGraph.edges = call.before.edges

\* addEdge was called with an absent target on a graph that holds edges
C4_Witness ==
    /\ AddedEdge
    /\ call.sourceId \in DOMAIN call.before.nodes
    /\ call.targetId \notin DOMAIN call.before.nodes
    /\ Len(dependencyGraph.edges) > 0

\* the (source, target, type) of an edge
Triple(edge) == <<edge.source, edge.target, edge.type>>

\* C5: the edge list never holds two edges with the same source, target and
\* type, and a repeated addEdge for an existing triple leaves the number of
\* edges unchanged.
C5_EdgeIdentity ==
    /\ \A i, j \in 1..Len(dependencyGraph.edges) :
          i # j => Triple(dependencyGraph.edges[i]) # Triple(dependencyGraph.edges[j])
    /\ (AddedEdge /\ \E i \in 1..Len(call.before.edges) :
                        Triple(call.before.edges[i])
                            = <<call.sourceId, call.targetId, call.type>>)
          => Len(dependencyGraph.edges) = Len(call.before.edges)

\* addEdge was repeated for a triple of a graph in which two edges of
\* different types join the same two nodes
C5_Witness ==
    /\ AddedEdge
    /\ call.sourceId # call.targetId
    /\ \E i \in 1..Len(call.before.edges) :
          Triple(call.before.edges[i]) = <<call.sourceId, call.targetId, call.type>>
    /\ \E i, j \in 1..Len(dependencyGraph.edges) :
          /\ dependencyGraph.edges[i].source = dependencyGraph.edges[j].source
          /\ dependencyGraph.edges[i].target = dependencyGraph.edges[j].target
          /\ dependencyGraph.edges[i].type # dependencyGraph.edges[j].type

(***************************************************************************)
(* Paths. A path is [abs, segs]: whether it starts with '/', and its       *)
(* segments; a segment is <<stem, extension>>, so that path.extname and    *)
(* `${path}${ext}` are operations on the last segment.                     *)
(***************************************************************************)
Seg(stem, ext) == <<stem, ext>>

\* process.cwd(), the directory relative paths are resolved against: '/'
Cwd == <<>>

\* path.join(dirPath, entry.name)
PathJoin(dirPath, seg) == [dirPath EXCEPT !.segs = Append(@, seg)]

\* path.dirname
PathDirname(p) == [p EXCEPT !.segs = SubSeq(@, 1, Len(@) - 1)]

\* path.extname
PathExtname(p) == IF p.segs = <<>> THEN "" ELSE p.segs[Len(p.segs)][2]

\* `${resolvedPath}${ext}` for a path whose last segment has no extension
WithExt(p, ext) == [p EXCEPT !.segs[Len(p.segs)] = Seg(@[1], ext)]

\* where on disk a path leads: the key of `disk`
Location(p) == IF p.abs THEN p.segs ELSE Cwd \o p.segs

\* path.resolve(dir, importPath): absolute, with '.' and '..' resolved
RECURSIVE Normalize(_, _)
Normalize(done, rest) ==
    IF rest = <<>> THEN done
    ELSE IF Head(rest) = Seg(".", "") THEN Normalize(done, Tail(rest))
    ELSE IF Head(rest) = Seg("..", "")
         THEN Normalize(IF done = <<>> THEN done ELSE SubSeq(done, 1, Len(done) - 1),
                        Tail(rest))
    ELSE Normalize(Append(done, Head(rest)), Tail(rest))

PathResolve(dir, importPath) ==
    [abs |-> TRUE,
     segs |-> Normalize(<<>>, Location(dir) \o importPath.segs)]


(***************************************************************************)
(* Import specifiers: [form, segs]; form says how the string starts        *)
(* ('.' relative, '/' absolute, anything else bare).                       *)
(***************************************************************************)
Relative(segs) == [form |-> "relative", abs |-> FALSE, segs |-> segs]
Bare(segs) == [form |-> "bare", abs |-> FALSE, segs |-> segs]

Specifiers ==
    { Relative(<<Seg(".", ""), Seg("b", "")>>),            \* './b'
      Relative(<<Seg(".", ""), Seg("b", ".js")>>),         \* './b.js'
      Relative(<<Seg(".", ""), Seg("lib", "")>>),          \* './lib'
      Relative(<<Seg(".", ""), Seg("missing", ".js")>>),   \* './missing.js'
      Bare(<<Seg("lodash", "")>>) }                        \* 'lodash'

ImportStatements ==
    { [syntax |-> x, specifier |-> sp] : x \in {"import", "require"}, sp \in Specifiers }

\* the sequences of at most n elements of S
RECURSIVE SeqsUpTo(_, _)
SeqsUpTo(S, n) ==
    IF n = 0 THEN { <<>> }
    ELSE SeqsUpTo(S, n - 1)
         \cup { Append(q, x) : q \in { r \in SeqsUpTo(S, n - 1) : Len(r) = n - 1 }, x \in S }

(***************************************************************************)
(* File contents, as the AST facts the visitors read:                      *)
(*   imports      ImportDeclarations and require(...) calls, in order      *)
(*   declarations names of the FunctionDeclarations                        *)
(*   classes      ClassDeclarations: [name, methods]                       *)
(*   callSites    CallExpressions with an Identifier callee: the callee    *)
(*                name and the ancestors of the call, innermost first      *)
(***************************************************************************)
NoName == ""

Ancestor(type, idName, declaratorName) ==
    [type |-> type, idName |-> idName, declaratorName |-> declaratorName]

\* how the call sites of a.js are enclosed
Enclosures ==
    [ FunctionDeclaration |->     \* function foo() { bar(); }
        <<Ancestor("BlockStatement", NoName, NoName),
          Ancestor("FunctionDeclaration", "foo", NoName)>>,
      VariableArrow |->           \* const foo = () => { bar(); }
        <<Ancestor("BlockStatement", NoName, NoName),
          Ancestor("ArrowFunctionExpression", NoName, "foo")>>,
      Callback |->                \* function foo() { items.forEach(() => bar()); }
        <<Ancestor("ArrowFunctionExpression", NoName, NoName),
          Ancestor("BlockStatement", NoName, NoName),
          Ancestor("FunctionDeclaration", "foo", NoName)>>,
      TopLevel |->                \* bar();
        <<Ancestor("ExpressionStatement", NoName, NoName)>> ]

EnclosureKinds == DOMAIN Enclosures

\* the callee lists of a.js: k calls of bar, or one call of an unknown name
CalleeLists ==
    { [i \in 1..k |-> "bar"] : k \in 1..MaxCallSites } \cup { <<"log">> }

\* a.js
ContentA(imports, kind, callees, declaresBar) ==
    [imports |-> imports,
     declarations |->
        (IF kind \in {"FunctionDeclaration", "Callback"} THEN <<"foo">> ELSE <<>>)
        \o (IF declaresBar THEN <<"bar">> ELSE <<>>),
     classes |-> <<>>,
     callSites |-> [i \in 1..Len(callees) |->
                       [callee |-> callees[i], ancestors |-> Enclosures[kind]]]]

\* b.js: function bar() {}  class Svc { run() {} }
ContentB ==
    [imports |-> <<>>, declarations |-> <<"bar">>,
     classes |-> <<[name |-> "Svc", methods |-> <<"run">>]>>,
     callSites |-> <<>>]

\* lib/index.js: no functions
ContentLib ==
    [imports |-> <<>>, declarations |-> <<>>, classes |-> <<>>, callSites |-> <<>>]

\* the code base lives in /r: a.js, b.js and lib/index.js
RootSegs == <<Seg("r", "")>>
LocA == RootSegs \o <<Seg("a", ".js")>>
LocB == RootSegs \o <<Seg("b", ".js")>>
LocLib == RootSegs \o <<Seg("lib", ""), Seg("index", ".js")>>

DiskOf(contentA) ==
    [l \in {LocA, LocB, LocLib} |->
        IF l = LocA THEN contentA ELSE IF l = LocB THEN ContentB ELSE ContentLib]

Disks ==
    { DiskOf(ContentA(imports, kind, callees, declaresBar)) :
        imports \in SeqsUpTo(ImportStatements, MaxImports),
        kind \in EnclosureKinds,
        callees \in CalleeLists,
        declaresBar \in BOOLEAN }

\* '/missing': no such directory on any disk
MissingRoot == [abs |-> TRUE, segs |-> <<Seg("missing", "")>>]

\* the codebasePath handed to initialize: '/r', 'r' relative to the cwd, or
\* '/missing'
RootPaths == { [abs |-> a, segs |-> RootSegs] : a \in BOOLEAN } \cup { MissingRoot }

\* what is wrong with an entry of the disk: "read" for a file that
\* fs.readFile rejects, "parse" for one that parser.parse throws on,
\* "readdir" for a directory that fs.readdir rejects, "none" otherwise
FaultOf(d, l) ==
    IF l \in DOMAIN d /\ "fault" \in DOMAIN d[l] THEN d[l].fault ELSE "none"

\* l lies below the directory at location dir
Below(l, dir) == Len(l) > Len(dir) /\ SubSeq(l, 1, Len(dir)) = dir

\* fs.readdir(dirPath) resolves: dirPath is a readable directory, one that
\* some file of the disk lies below
ReaddirResolves(dirPath, d) ==
    /\ FaultOf(d, Location(dirPath)) # "readdir"
    /\ \E l \in DOMAIN d : FaultOf(d, l) # "readdir" /\ Below(l, Location(dirPath))

(***************************************************************************)
(* CodebaseIndexer.                                                        *)
(***************************************************************************)
\* the files of the code base in the order readdir lists them
AllLocations == <<LocA, LocB, LocLib>>

\* scanDirectory's visiting order of the files below the root: the files
\* that no unreadable directory hides, each as path.join builds its path
ScanOrder(rootPath, d) ==
    LET root == Location(rootPath)
        Reached(l) ==
            /\ l \in DOMAIN d
            /\ Below(l, root)
            /\ \A n \in (Len(root) + 1)..(Len(l) - 1) :
                  FaultOf(d, SubSeq(l, 1, n)) # "readdir"
        reached == SelectSeq(AllLocations, Reached)
    IN [i \in 1..Len(reached) |->
           [abs |-> rootPath.abs,
            segs |-> rootPath.segs \o SubSeq(reached[i], Len(root) + 1, Len(reached[i]))]]

\* parseCode + indexFile: the fileIndex of one file
FileIndexOf(filePath, content) ==
    [path |-> filePath,
     functions |-> [i \in 1..Len(content.declarations) |->
                       [name |-> content.declarations[i]]],
     classes |-> content.classes]

\* indexFile: push the file, then its functions and classes with filePath
IndexFile(codeIndex, filePath, content) ==
    LET fileIndex == FileIndexOf(filePath, content) IN
    [codeIndex EXCEPT
        !.files = Append(@, fileIndex),
        !.functions = @ \o [i \in 1..Len(fileIndex.functions) |->
                              [name |-> fileIndex.functions[i].name,
                               filePath |-> filePath]],
        !.classes = @ \o [i \in 1..Len(fileIndex.classes) |->
                            [name |-> fileIndex.classes[i].name,
                             methods |-> fileIndex.classes[i].methods,
                             filePath |-> filePath]]]

\* indexFile where a parse error makes the file leave no trace
IndexFileAt_ParseErrorDrops(codeIndex, filePath, d) ==
    IF FaultOf(d, Location(filePath)) \in {"read", "parse"} THEN codeIndex
    ELSE IndexFile(codeIndex, filePath, d[Location(filePath)])

\* indexFile(filePath) on the disk: a rejected readFile is caught and the
\* index is left alone; a parse error is caught inside parseCode, and the
\* file is pushed with the empty lists its fileIndex started with
IndexFileAt(codeIndex, filePath, d) ==
    LET l == Location(filePath) IN
    IF FaultOf(d, l) = "read" THEN codeIndex
    ELSE IF FaultOf(d, l) = "parse"
         THEN IndexFile(codeIndex, filePath, [declarations |-> <<>>, classes |-> <<>>])
         ELSE IndexFile(codeIndex, filePath, d[l])

\* resetIndex
EmptyIndex ==
    [isNull |-> FALSE, files |-> <<>>, functions |-> <<>>, classes |-> <<>>,
     metadata |-> [indexedAt |-> Undefined, totalFiles |-> 0, totalFunctions |-> 0,
                   totalClasses |-> 0]]

\* updateMetadata
UpdateMetadata(codeIndex) ==
    [codeIndex EXCEPT !.metadata =
        [indexedAt |-> [isNull |-> FALSE],
         totalFiles |-> Len(codeIndex.files),
         totalFunctions |-> Len(codeIndex.functions),
         totalClasses |-> Len(codeIndex.classes)]]

RECURSIVE IndexFiles(_, _, _)
IndexFiles(codeIndex, paths, d) ==
    IF paths = <<>> THEN codeIndex
    ELSE IndexFiles(IndexFileAt(codeIndex, Head(paths), d), Tail(paths), d)

\* scanDirectory(codebasePath) from a fresh index: a rejected readdir is
\* caught and logged, and the index stays as resetIndex left it
ScanDirectory(rootPath, d) ==
    IF ReaddirResolves(rootPath, d)
    THEN IndexFiles(EmptyIndex, ScanOrder(rootPath, d), d)
    ELSE EmptyIndex

\* indexCodebase(codebasePath) with no other call in flight: the returned index
IndexCodebase(rootPath, d) == UpdateMetadata(ScanDirectory(rootPath, d))

(***************************************************************************)
(* DependencyAnalyzer.buildDependencyGraph.                                *)
(***************************************************************************)
ClassId(filePath, name) == <<"class", filePath, name>>
MethodId(filePath, className, name) == <<"method", filePath, className, name>>

\* addFilesToGraph
RECURSIVE AddFilesToGraph(_, _)
AddFilesToGraph(G, files) ==
    IF files = <<>> THEN G
    ELSE AddFilesToGraph(PutNode(G, FileId(Head(files).path)), Tail(files))

\* addFunctionsToGraph: the node, then its contains edge to the file
RECURSIVE AddFunctionsToGraph(_, _)
AddFunctionsToGraph(G, functions) ==
    IF functions = <<>> THEN G
    ELSE LET func == Head(functions)
             nodeId == FunctionId(func.filePath, func.name)
         IN AddFunctionsToGraph(
                AddEdgeTo(PutNode(G, nodeId), nodeId, FileId(func.filePath),
                          "contains", EmptyObject),
                Tail(functions))

\* addClassesToGraph, the loop over cls.methods
RECURSIVE AddMethodsToGraph(_, _, _)
AddMethodsToGraph(G, cls, methods) ==
    IF methods = <<>> THEN G
    ELSE LET methodNodeId == MethodId(cls.filePath, cls.name, Head(methods))
         IN AddMethodsToGraph(
                AddEdgeTo(PutNode(G, methodNodeId), methodNodeId,
                          ClassId(cls.filePath, cls.name), "memberOf", EmptyObject),
                cls, Tail(methods))

\* addClassesToGraph
RECURSIVE AddClassesToGraph(_, _)
AddClassesToGraph(G, classes) ==
    IF classes = <<>> THEN G
    ELSE LET cls == Head(classes)
             nodeId == ClassId(cls.filePath, cls.name)
         IN AddClassesToGraph(
                AddMethodsToGraph(
                    AddEdgeTo(PutNode(G, nodeId), nodeId, FileId(cls.filePath),
                              "contains", EmptyObject),
                    cls, cls.methods),
                Tail(classes))

\* `fs` is require('fs').promises: the methods that object has. existsSync
\* is not one of them, so fs.existsSync(...) throws a TypeError, which the
\* try/catch around each probe swallows.
FsPromisesMethods == { "readFile", "readdir", "stat" }

\* one probe of resolveImportPath: fs.existsSync(p) returned true
ProbeFinds(p, d) ==
    "existsSync" \in FsPromisesMethods /\ Location(p) \in DOMAIN d

\* the extensions resolveImportPath probes, in order
ProbeExtensions == <<".js", ".jsx", ".ts", ".tsx">>

\* the first path of a list of candidates that a probe finds, if any
FirstFound(candidates, d) ==
    LET hits == { i \in 1..Len(candidates) : ProbeFinds(candidates[i], d) } IN
    IF hits = {} THEN Undefined
    ELSE candidates[CHOOSE i \in hits : \A j \in hits : i <= j]

\* the specifiers resolveImportPath gives up on at once
SkippedAsModule(importPath, includeNodeModules) ==
    /\ ~includeNodeModules
    /\ \/ (importPath.form = "bare" /\ importPath.segs[1] = Seg("node_modules", "")
                                    /\ Len(importPath.segs) > 1)
       \/ (importPath.form # "relative" /\ importPath.form # "absolute")

\* resolveImportPath(importPath, currentFilePath): a path, or Undefined for null
ResolveImportPath(importPath, currentFilePath, includeNodeModules, d) ==
    IF SkippedAsModule(importPath, includeNodeModules) THEN Undefined
    ELSE IF importPath.form = "bare" THEN Undefined
    ELSE LET resolvedPath ==
                 IF importPath.form = "relative"
                 THEN PathResolve(PathDirname(currentFilePath), importPath)
                 ELSE [abs |-> TRUE, segs |-> importPath.segs]
         IN IF PathExtname(resolvedPath) # "" THEN resolvedPath
            ELSE LET withExt == FirstFound(
                         [i \in 1..Len(ProbeExtensions) |->
                             WithExt(resolvedPath, ProbeExtensions[i])], d)
                     asIndex == FirstFound(
                         [i \in 1..Len(ProbeExtensions) |->
                             PathJoin(resolvedPath, Seg("index", ProbeExtensions[i]))], d)
                 IN IF withExt # Undefined THEN withExt
                    ELSE IF asIndex # Undefined THEN asIndex
                    ELSE resolvedPath

\* analyzeFileDependencies, one file: the visitors over its statements
RECURSIVE AddImportEdges(_, _, _, _, _)
AddImportEdges(G, file, imports, includeNodeModules, d) ==
    IF imports = <<>> THEN G
    ELSE LET stmt == Head(imports)
             resolvedPath == ResolveImportPath(stmt.specifier, file.path,
                                               includeNodeModules, d)
             type == IF stmt.syntax = "import" THEN "imports" ELSE "requires"
         IN AddImportEdges(
                IF resolvedPath # Undefined
                THEN AddEdgeTo(G, FileId(file.path), FileId(resolvedPath), type,
                               EmptyObject)
                ELSE G,
                file, Tail(imports), includeNodeModules, d)

\* analyzeFunctionCalls: functionMap, name -> id of the last function so named
FunctionMap(functions) ==
    [name \in { functions[i].name : i \in 1..Len(functions) } |->
        LET last == CHOOSE i \in 1..Len(functions) :
                        /\ functions[i].name = name
                        /\ \A j \in 1..Len(functions) : functions[j].name = name => j <= i
        IN FunctionId(functions[last].filePath, functions[last].name)]

FunctionTypes == { "FunctionDeclaration", "FunctionExpression", "ArrowFunctionExpression" }

\* the name of a declared function or of the variable an expression is bound to
NameOfFunction(ancestor) ==
    IF ancestor.type = "FunctionDeclaration"
    THEN (IF ancestor.idName # NoName THEN ancestor.idName ELSE "anonymous")
    ELSE (IF ancestor.declaratorName # NoName THEN ancestor.declaratorName
          ELSE "anonymous")

\* the walk up the ancestors: the name of the nearest enclosing function,
\* NoName when the call is in no function
CurrentFunctionName(ancestors) ==
    LET fs == { i \in 1..Len(ancestors) : ancestors[i].type \in FunctionTypes } IN
    IF fs = {} THEN NoName
    ELSE NameOfFunction(ancestors[CHOOSE i \in fs : \A j \in fs : i <= j])

\* analyzeFunctionCalls, one file: the CallExpression visitor over its calls
RECURSIVE AddCallEdges(_, _, _, _)
AddCallEdges(G, file, callSites, functionMap) ==
    IF callSites = <<>> THEN G
    ELSE LET site == Head(callSites)
             currentFunctionName == CurrentFunctionName(site.ancestors)
         IN AddCallEdges(
                IF /\ site.callee \in DOMAIN functionMap
                   /\ currentFunctionName # NoName
                   /\ currentFunctionName # "anonymous"
                THEN AddEdgeTo(G, FunctionId(file.path, currentFunctionName),
                               functionMap[site.callee], "calls", [weight |-> 1])
                ELSE G,
                file, Tail(callSites), functionMap)

\* the content fs.readFile + parser.parse give for a file of the index
ContentOf(file, d) == d[Location(file.path)]

(***************************************************************************)
(* SemanticAnalyzer.analyzeCodebase: the keys of the semantic index (the   *)
(* token lists and vectors stored under them are not part of this state).  *)
(***************************************************************************)
AnalyzeCodebaseOf(codeIndex) ==
    [files |-> { codeIndex.files[i].path : i \in 1..Len(codeIndex.files) },
     functions |-> { FunctionId(codeIndex.functions[i].filePath,
                                codeIndex.functions[i].name) :
                        i \in 1..Len(codeIndex.functions) },
     classes |-> { ClassId(codeIndex.classes[i].filePath, codeIndex.classes[i].name) :
                        i \in 1..Len(codeIndex.classes) }]

(***************************************************************************)
(* ChangePredictor. Weights are products of 1/depth and factors with one   *)
(* decimal; they are counted in units of 1/WeightUnit so that every weight *)
(* of a depth up to 3 is an integer.                                       *)
(***************************************************************************)
WeightUnit == 3000

\* getElementId(codeElement): `${type}:${filePath}:${name}`
GetElementId(codeElement) == <<codeElement.type, codeElement.filePath, codeElement.name>>

\* predictChanges, the loop over mappingResults: codeElementsToModify
CodeElementsToModify(mappingResults) ==
    [i \in 1..Len(mappingResults) |->
        [id |-> GetElementId(mappingResults[i].codeElement),
         type |-> mappingResults[i].codeElement.type,
         name |-> mappingResults[i].codeElement.name,
         filePath |-> mappingResults[i].codeElement.filePath,
         confidence |-> mappingResults[i].mapping.confidence]]

\* predictChanges, the loop over mappingResults: the Set filesToModify, as
\* the array of its values in insertion order
RECURSIVE FilesToModifyOf(_)
FilesToModifyOf(mappingResults) ==
    IF mappingResults = <<>> THEN <<>>
    ELSE LET before == FilesToModifyOf(SubSeq(mappingResults, 1, Len(mappingResults) - 1))
             filePath == mappingResults[Len(mappingResults)].codeElement.filePath
         IN IF \E i \in 1..Len(before) : before[i] = filePath
            THEN before ELSE Append(before, filePath)

\* fallbackImpactAnalysis for a graph object without getNodeDependencies
NoTraversalImpact(element) ==
    [nodeId |-> element.id, node |-> element,
     impactedNodes |-> <<>>, dependencyNodes |-> <<>>,
     impactScore |-> 0, dependencyScore |-> 0]

\* fallbackImpactAnalysis that looks at the direct neighbours only
TraversalImpact_DepthOne(element, G) ==
    LET impactedNodes == GetNodeDependenciesOf(G, element.id,
                             [direction |-> "incoming", depth |-> 1])
        dependencyNodes == GetNodeDependenciesOf(G, element.id,
                             [direction |-> "outgoing", depth |-> 1])
    IN [nodeId |-> element.id, node |-> element,
        impactedNodes |-> impactedNodes, dependencyNodes |-> dependencyNodes,
        impactScore |-> Len(impactedNodes), dependencyScore |-> Len(dependencyNodes)]

\* fallbackImpactAnalysis for a graph object with getNodeDependencies
TraversalImpact(element, G) ==
    LET impactedNodes == GetNodeDependenciesOf(G, element.id,
                             [direction |-> "incoming", depth |-> 2])
        dependencyNodes == GetNodeDependenciesOf(G, element.id,
                             [direction |-> "outgoing", depth |-> 2])
    IN [nodeId |-> element.id, node |-> element,
        impactedNodes |-> impactedNodes, dependencyNodes |-> dependencyNodes,
        impactScore |-> Len(impactedNodes), dependencyScore |-> Len(dependencyNodes)]

\* analyzeImpact for a graph object without getImpactAnalysis; `traverses`
\* says whether the object has a getNodeDependencies method
AnalyzeImpact(codeElements, G, traverses) ==
    [i \in 1..Len(codeElements) |->
        [element |-> codeElements[i],
         impact |-> IF traverses THEN TraversalImpact(codeElements[i], G)
                    ELSE NoTraversalImpact(codeElements[i])]]

\* calculateNodeWeight(node, sourceElement)
EdgeTypeFactor(type) ==
    IF type = "calls" THEN 15
    ELSE IF type \in {"imports", "requires"} THEN 12
    ELSE IF type = "contains" THEN 8 ELSE 10

ConfidenceFactor(confidence) ==
    IF confidence = "high" THEN 12 ELSE IF confidence = "low" THEN 8 ELSE 10

CalculateNodeWeight(node, sourceElement) ==
    LET byDepth == IF node.depth # 0 THEN WeightUnit \div node.depth ELSE WeightUnit
        byEdge == (byDepth * EdgeTypeFactor(node.edge.type)) \div 10
    IN (byEdge * ConfidenceFactor(sourceElement.confidence)) \div 10

\* calculateFileWeight without the switch on the type of the node
NodeTypeFactor_Flat(type) == 10

\* calculateFileWeight(node)
NodeTypeFactor(type) ==
    IF type = "function" THEN 12
    ELSE IF type = "class" THEN 15
    ELSE IF type = "method" THEN 13 ELSE 10

CalculateFileWeight(node) ==
    LET byDepth == IF node.depth # 0 THEN WeightUnit \div node.depth ELSE WeightUnit
    IN (byDepth * NodeTypeFactor(node.node.type)) \div 10

\* mergeImpactAnalysis: one entry of a traversal goes into the Map of nodes
CollectNode(acc, node, element) ==
    IF \E i \in 1..Len(acc) : acc[i].key = node.id
    THEN LET i == CHOOSE i \in 1..Len(acc) : acc[i].key = node.id IN
         [acc EXCEPT ![i].sources = Append(@, element.id),
                     ![i].weight = @ + CalculateNodeWeight(node, element)]
    ELSE Append(acc, [key |-> node.id, node |-> node.node, sources |-> <<element.id>>,
                      weight |-> CalculateNodeWeight(node, element)])

\* the file an entry counts for: <<path>>, or <<>> when it counts for none
FileOfEntry(node) ==
    IF node.node.type # "file" /\ "filePath" \in DOMAIN node.node
    THEN <<node.node.filePath>>
    ELSE IF node.node.type = "file" /\ "path" \in DOMAIN node.node
         THEN <<node.node.path>>
         ELSE <<>>

\* mergeImpactAnalysis: one entry of a traversal goes into the Map of files
CollectFile(acc, node) ==
    IF FileOfEntry(node) = <<>> THEN acc
    ELSE LET filePath == FileOfEntry(node)[1] IN
         IF \E i \in 1..Len(acc) : acc[i].path = filePath
         THEN LET i == CHOOSE i \in 1..Len(acc) : acc[i].path = filePath IN
              IF \E k \in 1..Len(acc[i].elements) : acc[i].elements[k] = node.id
              THEN acc
              ELSE [acc EXCEPT ![i].elements = Append(@, node.id),
                               ![i].weight = @ + CalculateFileWeight(node)]
         ELSE Append(acc, [path |-> filePath, elements |-> <<node.id>>,
                           weight |-> CalculateFileWeight(node)])

\* the entries of all results in the order the loops meet them, each with
\* the element of its result; `field` is impactedNodes or dependencyNodes
RECURSIVE EntriesOf(_, _)
EntriesOf(impactResults, field) ==
    IF impactResults = <<>> THEN <<>>
    ELSE LET result == Head(impactResults)
             nodes == IF field = "impactedNodes" THEN result.impact.impactedNodes
                      ELSE result.impact.dependencyNodes
         IN [k \in 1..Len(nodes) |-> [node |-> nodes[k], element |-> result.element]]
            \o EntriesOf(Tail(impactResults), field)

RECURSIVE CollectNodes(_, _)
CollectNodes(acc, entries) ==
    IF entries = <<>> THEN acc
    ELSE CollectNodes(CollectNode(acc, Head(entries).node, Head(entries).element),
                      Tail(entries))

RECURSIVE CollectFiles(_, _)
CollectFiles(acc, entries) ==
    IF entries = <<>> THEN acc
    ELSE CollectFiles(CollectFile(acc, Head(entries).node), Tail(entries))

\* array.sort((a, b) => b.weight - a.weight): stable, heaviest first
RECURSIVE SortByWeight(_)
SortByWeight(array) ==
    IF array = <<>> THEN <<>>
    ELSE LET sorted == SortByWeight(SubSeq(array, 1, Len(array) - 1))
             x == array[Len(array)]
             ahead == { i \in 1..Len(sorted) : sorted[i].weight >= x.weight }
             n == IF ahead = {} THEN 0 ELSE CHOOSE i \in ahead : \A j \in ahead : j <= i
         IN SubSeq(sorted, 1, n) \o <<x>> \o SubSeq(sorted, n + 1, Len(sorted))

RECURSIVE SumOfWeights(_)
SumOfWeights(array) ==
    IF array = <<>> THEN 0 ELSE Head(array).weight + SumOfWeights(Tail(array))

\* the values of a Map of nodes: the entries without their keys
ValuesOf(acc, list) ==
    [i \in 1..Len(acc) |-> [node |-> acc[i].node, weight |-> acc[i].weight]
                            @@ (list :> acc[i].sources)]

\* mergeImpactAnalysis(impactResults)
MergeImpactAnalysis(impactResults) ==
    LET impacted == EntriesOf(impactResults, "impactedNodes")
        dependency == EntriesOf(impactResults, "dependencyNodes")
        impactedNodesArray == SortByWeight(ValuesOf(CollectNodes(<<>>, impacted), "sources"))
        dependencyNodesArray ==
            SortByWeight(ValuesOf(CollectNodes(<<>>, dependency), "targets"))
    IN [impactedNodes |-> impactedNodesArray,
        dependencyNodes |-> dependencyNodesArray,
        impactedFiles |-> SortByWeight(CollectFiles(<<>>, impacted)),
        dependencyFiles |-> SortByWeight(CollectFiles(<<>>, dependency)),
        totalImpactScore |-> SumOfWeights(impactedNodesArray),
        totalDependencyScore |-> SumOfWeights(dependencyNodesArray)]

\* the ChangePredictor's own defaults: impactThreshold 0.5, maxImpactedFiles 20
PredictorDefaults == [impactThreshold |-> WeightUnit \div 2, maxImpactedFiles |-> 20]

\* array.slice(0, end) for end >= 0
Slice(array, end) == SubSeq(array, 1, IF end < Len(array) THEN end ELSE Len(array))

\* calculateRiskLevel with >= for >
CalculateRiskLevel_Inclusive(impactAnalysis) ==
    IF \/ impactAnalysis.totalImpactScore >= 50 * WeightUnit
       \/ Len(impactAnalysis.impactedFiles) >= 20
    THEN "high"
    ELSE IF \/ impactAnalysis.totalImpactScore >= 20 * WeightUnit
            \/ Len(impactAnalysis.impactedFiles) >= 10
         THEN "medium"
         ELSE "low"

\* calculateRiskLevel(impactAnalysis)
CalculateRiskLevel(impactAnalysis) ==
    IF \/ impactAnalysis.totalImpactScore > 50 * WeightUnit
       \/ Len(impactAnalysis.impactedFiles) > 20
    THEN "high"
    ELSE IF \/ impactAnalysis.totalImpactScore > 20 * WeightUnit
            \/ Len(impactAnalysis.impactedFiles) > 10
         THEN "medium"
         ELSE "low"

\* the filter of generateChangePlan without the test of the weight
Eligible_AnyWeight(files, filesToModify, config) ==
    LET Test(file) == ~\E i \in 1..Len(filesToModify) : filesToModify[i] = file.path
    IN SelectSeq(files, Test)

\* the filter of generateChangePlan: not a file to modify, heavy enough
Eligible(files, filesToModify, config) ==
    LET Test(file) == /\ ~\E i \in 1..Len(filesToModify) : filesToModify[i] = file.path
                      /\ file.weight >= config.impactThreshold
    IN SelectSeq(files, Test)

Changes(filePaths, changeType, priority) ==
    [i \in 1..Len(filePaths) |->
        [filePath |-> filePaths[i], changeType |-> changeType, priority |-> priority]]

\* generateChangePlan(impactAnalysis, filesToModify)
GenerateChangePlan(impactAnalysis, filesToModify, config) ==
    LET secondary == Slice(Eligible(impactAnalysis.impactedFiles, filesToModify, config),
                           config.maxImpactedFiles)
        dependency == Slice(Eligible(impactAnalysis.dependencyFiles, filesToModify, config),
                            config.maxImpactedFiles \div 2)
        secondaryFiles == [i \in 1..Len(secondary) |-> secondary[i].path]
        dependencyFiles == [i \in 1..Len(dependency) |-> dependency[i].path]
    IN [primaryChanges |-> Changes(filesToModify, "modify", "high"),
        secondaryChanges |-> Changes(secondaryFiles, "check", "medium"),
        dependencyChecks |-> Changes(dependencyFiles, "verify", "low"),
        impactSummary |->
            [directChanges |-> Len(filesToModify),
             potentialImpact |-> Len(secondaryFiles),
             dependenciesToVerify |-> Len(dependencyFiles),
             totalImpactScore |-> impactAnalysis.totalImpactScore,
             riskLevel |-> CalculateRiskLevel(impactAnalysis)]]

\* ChangePredictor.predictChanges(mappingResults, dependencyGraph), for a
\* graph object without getImpactAnalysis
PredictChangesResult(mappingResults, G, traverses, config) ==
    LET codeElementsToModify == CodeElementsToModify(mappingResults)
        mergedImpact == MergeImpactAnalysis(AnalyzeImpact(codeElementsToModify, G, traverses))
    IN [filesToModify |-> FilesToModifyOf(mappingResults),
        codeElementsToModify |-> codeElementsToModify,
        impactAnalysis |-> mergedImpact,
        changePlan |-> GenerateChangePlan(mergedImpact, FilesToModifyOf(mappingResults),
                                          config)]

(***************************************************************************)
(* CodeMappingEngine.                                                      *)
(***************************************************************************)
Error(message) == [kind |-> "error", message |-> message]
Ok == [kind |-> "ok"]

\* mapTaskToCode's guard
NotInitialized_Never(e) == FALSE

NotInitialized(e) == e.codeIndex.isNull

\* predictChanges' guard
GraphNotBuilt(e) == e.dependencyGraph.isNull

\* MappingAlgorithm.mapTask: what the call ends with
MapTask(globalAnalyzer) ==
    IF globalAnalyzer = Undefined
    THEN Error("Semantic analyzer not available")
    ELSE Ok

\* mapTaskToCode(task): what the call ends with
MapTaskToCodeOf(e, globalAnalyzer) ==
    IF NotInitialized(e)
    THEN Error("Code mapping engine not initialized")
    ELSE MapTask(globalAnalyzer)

\* predictChanges(mappingResults): what the call ends with
PredictChangesOf(e) ==
    IF GraphNotBuilt(e)
    THEN Error("Dependency graph not built")
    ELSE Ok

(***************************************************************************)
(* CodeMappingEngine.generateCodeModificationSuggestions.                  *)
(***************************************************************************)
\* a call that returned `value`
Returned(value) == [kind |-> "ok", value |-> value]

\* obj[field] of JavaScript: undefined for a property the object lacks
Get(obj, field) == IF field \in DOMAIN obj THEN obj[field] ELSE Undefined

\* a MappingResult as generateMappingResults emits it, for an indexed function
MappingResultOf(task, func, confidence) ==
    [task |-> task,
     codeElement |-> [type |-> "function", name |-> func.name, filePath |-> func.filePath],
     mapping |-> [confidence |-> confidence]]

Tasks == { [title |-> "export report"] }
Confidences == { "high", "medium", "low" }

\* the mapping results mapTask can hand back: one per function of a prefix
\* of the index's functions
MappingResultsFor(task, functions, confidence) ==
    { [i \in 1..k |-> MappingResultOf(task, functions[i], confidence)] :
        k \in 0..Len(functions) }

\* generateCodeModificationSuggestions(task), after mapTaskToCode returned
\* mappingResults
SuggestionsOf(e, task, mappingResults) ==
    IF GraphNotBuilt(e) THEN Error("Dependency graph not built")
    ELSE LET changeImpact == PredictChangesResult(mappingResults, e.dependencyGraph,
                                                  FALSE, PredictorDefaults)
         IN IF "impactedFiles" \notin DOMAIN changeImpact
            THEN Error("TypeError: Cannot read properties of undefined")
            ELSE Returned(
                   [mappingResults |-> mappingResults,
                    changeImpact |-> changeImpact,
                    modificationPlan |->
                       [filesToModify |->
                            [i \in 1..Len(mappingResults) |->
                                Get(mappingResults[i], "filePath")],
                        suggestedChanges |->
                            [i \in 1..Len(mappingResults) |->
                                [filePath |-> Get(mappingResults[i], "filePath"),
                                 location |-> Get(mappingResults[i], "location"),
                                 suggestion |-> <<"Implement ", task.title, " here">>]],
                        potentialImpact |-> Len(changeImpact.impactedFiles)]])

\* the step of initialize that follows the seeding of the nodes or the
\* analysis of the file at `cursor`: the next file of the same loop, the
\* next loop, or the end of buildDependencyGraph
AfterFile(pc, cursor, files) ==
    IF cursor < Len(files) THEN [pc |-> pc, cursor |-> cursor + 1]
    ELSE IF pc = "fileDependencies" /\ files # <<>>
         THEN [pc |-> "functionCalls", cursor |-> 1]
         ELSE [pc |-> "built", cursor |-> 0]

\* global.semanticAnalyzer is process state that no module of the engine
\* writes: it is undefined, or an analyzer the host program stored there
HostAnalyzer == [isNull |-> FALSE]

InitEngine ==
    /\ dependencyGraph = EmptyGraph
    /\ call = NoCall
    /\ disk \in Disks
    /\ engineConfig \in [includeNodeModules : BOOLEAN]
    /\ engine = [codeIndex |-> Undefined, dependencyGraph |-> Undefined]
    /\ semanticIndex = [files |-> {}, functions |-> {}, classes |-> {}]
    /\ globalSemanticAnalyzer \in { Undefined, HostAnalyzer }
    /\ init = [pc |-> "idle", calls |-> 0, completed |-> 0]
    /\ input = NoInput
    /\ indexer = IndexerIdle

\* initialize(codebasePath), up to the assignment of this.codeIndex
IndexCodebaseStep(codebasePath) ==
    /\ call = NoCall
    /\ init.pc = "idle"
    /\ init.calls < MaxInitializeCalls
    /\ engine' = [engine EXCEPT !.codeIndex = IndexCodebase(codebasePath, disk)]
    /\ init' = [pc |-> "indexed", calls |-> init.calls + 1,
                completed |-> init.completed, codebasePath |-> codebasePath]
    /\ UNCHANGED <<dependencyGraph, call, disk, engineConfig, semanticIndex,
                   globalSemanticAnalyzer, input, indexer>>

\* await this.semanticAnalyzer.analyzeCodebase(this.codeIndex)
AnalyzeCodebaseStep ==
    /\ call = NoCall
    /\ init.pc = "indexed"
    /\ semanticIndex' = AnalyzeCodebaseOf(engine.codeIndex)
    /\ init' = [init EXCEPT !.pc = "analyzed"]
    /\ UNCHANGED <<dependencyGraph, call, disk, engineConfig, engine,
                   globalSemanticAnalyzer, input, indexer>>

\* buildDependencyGraph up to its first await: reset, then the nodes
SeedGraphStep ==
    /\ call = NoCall
    /\ init.pc = "analyzed"
    /\ dependencyGraph' =
          AddClassesToGraph(
              AddFunctionsToGraph(
                  AddFilesToGraph(EmptyGraph, engine.codeIndex.files),
                  engine.codeIndex.functions),
              engine.codeIndex.classes)
    /\ init' = IF engine.codeIndex.files = <<>>
               THEN [init EXCEPT !.pc = "built"]
               ELSE [init EXCEPT !.pc = "fileDependencies"] @@ [cursor |-> 1]
    /\ UNCHANGED <<call, disk, engineConfig, engine, semanticIndex,
                   globalSemanticAnalyzer, input, indexer>>

\* analyzeFileDependencies: one turn of its loop over the files
AnalyzeFileDependenciesStep ==
    /\ call = NoCall
    /\ init.pc = "fileDependencies"
    /\ LET file == engine.codeIndex.files[init.cursor] IN
       dependencyGraph' = AddImportEdges(dependencyGraph, file,
                              ContentOf(file, disk).imports,
                              engineConfig.includeNodeModules, disk)
    /\ init' = ObjectAssign(init, AfterFile(init.pc, init.cursor, engine.codeIndex.files))
    /\ UNCHANGED <<call, disk, engineConfig, engine, semanticIndex,
                   globalSemanticAnalyzer, input, indexer>>

\* analyzeFunctionCalls: one turn of its loop over the files
AnalyzeFunctionCallsStep ==
    /\ call = NoCall
    /\ init.pc = "functionCalls"
    /\ LET file == engine.codeIndex.files[init.cursor] IN
       dependencyGraph' = AddCallEdges(dependencyGraph, file,
                              ContentOf(file, disk).callSites,
                              FunctionMap(engine.codeIndex.functions))
    /\ init' = ObjectAssign(init, AfterFile(init.pc, init.cursor, engine.codeIndex.files))
    /\ UNCHANGED <<call, disk, engineConfig, engine, semanticIndex,
                   globalSemanticAnalyzer, input, indexer>>

\* buildDependencyGraph returns; this.dependencyGraph is assigned
FinishInitialize ==
    /\ call = NoCall
    /\ init.pc = "built"
    /\ engine' = [engine EXCEPT
                     !.dependencyGraph = [isNull |-> FALSE,
                                          nodes |-> dependencyGraph.nodes,
                                          edges |-> dependencyGraph.edges]]
    /\ init' = [pc |-> "idle", calls |-> init.calls,
                completed |-> init.completed + 1, codebasePath |-> init.codebasePath]
    /\ UNCHANGED <<dependencyGraph, call, disk, engineConfig, semanticIndex,
                   globalSemanticAnalyzer, input, indexer>>

MapTaskToCode ==
    /\ call = NoCall
    /\ call' = [made |-> TRUE, op |-> "mapTaskToCode",
                outcome |-> MapTaskToCodeOf(engine, globalSemanticAnalyzer),
                engineBefore |-> engine]
    /\ UNCHANGED <<dependencyGraph, engineVars>>

\* the mapping results predictChanges is called with: one result for every
\* function of the code index, none while there is no index
MappingResultsOfIndex(e) ==
    IF NotInitialized(e) THEN <<>>
    ELSE [i \in 1..Len(e.codeIndex.functions) |->
             MappingResultOf([title |-> "export report"], e.codeIndex.functions[i], "high")]

\* predictChanges(mappingResults): `value` is what the predictor returns for
\* this.dependencyGraph, the object buildDependencyGraph returned, which
\* carries the nodes and the edges and no method
PredictChanges ==
    /\ call = NoCall
    /\ call' = [made |-> TRUE, op |-> "predictChanges",
                outcome |-> PredictChangesOf(engine),
                mappingResults |-> MappingResultsOfIndex(engine),
                value |-> IF GraphNotBuilt(engine) THEN Undefined
                          ELSE PredictChangesResult(MappingResultsOfIndex(engine),
                                                    engine.dependencyGraph, FALSE,
                                                    PredictorDefaults),
                engineBefore |-> engine]
    /\ UNCHANGED <<dependencyGraph, engineVars>>

\* generateCodeModificationSuggestions(task): mapTaskToCode, then
\* predictChanges, then the plan
GenerateCodeModificationSuggestions(task, confidence) ==
    /\ call = NoCall
    /\ \/ /\ MapTaskToCodeOf(engine, globalSemanticAnalyzer) # Ok
          /\ call' = [made |-> TRUE, op |-> "generateCodeModificationSuggestions",
                      task |-> task, mappingResults |-> <<>>,
                      outcome |-> MapTaskToCodeOf(engine, globalSemanticAnalyzer),
                      engineBefore |-> engine]
       \/ /\ MapTaskToCodeOf(engine, globalSemanticAnalyzer) = Ok
          /\ \E mappingResults \in
                  MappingResultsFor(task, engine.codeIndex.functions, confidence) :
                call' = [made |-> TRUE, op |-> "generateCodeModificationSuggestions",
                         task |-> task, mappingResults |-> mappingResults,
                         outcome |-> SuggestionsOf(engine, task, mappingResults),
                         engineBefore |-> engine]
    /\ UNCHANGED <<dependencyGraph, engineVars>>

NextEngine ==
    \/ \E codebasePath \in RootPaths : IndexCodebaseStep(codebasePath)
    \/ AnalyzeCodebaseStep
    \/ SeedGraphStep
    \/ AnalyzeFileDependenciesStep
    \/ AnalyzeFunctionCallsStep
    \/ FinishInitialize
    \/ MapTaskToCode
    \/ PredictChanges
    \/ \E task \in Tasks, confidence \in Confidences :
          GenerateCodeModificationSuggestions(task, confidence)
    \/ Return

SpecEngine == InitEngine /\ [][NextEngine]_vars

(***************************************************************************)
(* Properties of the graph that initialize builds (SpecEngine).            *)
(***************************************************************************)
\* an initialize call has completed and none is in flight
Initialized == init.completed >= 1 /\ init.pc = "idle"

ImportTypes == { "imports", "requires" }

EdgeTypeOf(stmt) == IF stmt.syntax = "import" THEN "imports" ELSE "requires"

\* Where a relative specifier of the file at `fromPath` leads on disk, by the
\* resolution rule of the specification: the joined path itself when it has
\* an extension, else the path with each extension, else index.<ext> in it.
SpecifiedCandidates(fromPath, specifier) ==
    LET base == Normalize(<<>>, Location(PathDirname(fromPath)) \o specifier.segs)
        last == base[Len(base)]
    IN IF last[2] # "" THEN <<base>>
       ELSE [i \in 1..Len(ProbeExtensions) |->
                [base EXCEPT ![Len(base)] = Seg(last[1], ProbeExtensions[i])]]
            \o [i \in 1..Len(ProbeExtensions) |->
                Append(base, Seg("index", ProbeExtensions[i]))]

\* the first candidate that is a file on disk: <<location>>, or <<>> if none
SpecifiedTarget(fromPath, specifier, d) ==
    LET c == SpecifiedCandidates(fromPath, specifier)
        hits == { i \in 1..Len(c) : c[i] \in DOMAIN d }
    IN IF hits = {} THEN <<>>
       ELSE <<c[CHOOSE i \in hits : \A j \in hits : i <= j]>>

\* the graph has an edge source -> target of the given type
HasEdge(G, sourceId, targetId, type) ==
    \E i \in 1..Len(G.edges) :
        /\ G.edges[i].source = sourceId
        /\ G.edges[i].target = targetId
        /\ G.edges[i].type = type

IndexedFiles == engine.codeIndex.files

\* C6: for every indexed file A that imports or requires a relative
\* specifier which resolves on disk to an indexed file B, the built graph
\* has an edge file:A -> file:B of type imports or requires.
C6_ImportEdgesExist ==
    Initialized =>
        \A a \in 1..Len(IndexedFiles), b \in 1..Len(IndexedFiles) :
            LET fileA == IndexedFiles[a]
                fileB == IndexedFiles[b]
                imports == ContentOf(fileA, disk).imports
            IN \A k \in 1..Len(imports) :
                  ( /\ imports[k].specifier.form = "relative"
                    /\ SpecifiedTarget(fileA.path, imports[k].specifier, disk)
                          = <<Location(fileB.path)>> )
                  => HasEdge(engine.dependencyGraph, FileId(fileA.path),
                             FileId(fileB.path), EdgeTypeOf(imports[k]))

\* C7: with external-module inclusion disabled, every imports/requires edge
\* joins two file nodes and comes from a statement of its source file whose
\* specifier is not a bare module name and leads to the indexed target file;
\* so no edge is made for a bare specifier or for a path that is not indexed.
C7_NoEdgeForUnresolved ==
    ~engineConfig.includeNodeModules =>
        \A i \in 1..Len(dependencyGraph.edges) :
            LET e == dependencyGraph.edges[i] IN
            e.type \in ImportTypes =>
                /\ e.source \in DOMAIN dependencyGraph.nodes
                /\ e.target \in DOMAIN dependencyGraph.nodes
                /\ dependencyGraph.nodes[e.source].type = "file"
                /\ dependencyGraph.nodes[e.target].type = "file"
                /\ \E a \in 1..Len(IndexedFiles), b \in 1..Len(IndexedFiles) :
                      LET imports == ContentOf(IndexedFiles[a], disk).imports IN
                      /\ e.source = FileId(IndexedFiles[a].path)
                      /\ e.target = FileId(IndexedFiles[b].path)
                      /\ \E k \in 1..Len(imports) :
                            /\ EdgeTypeOf(imports[k]) = e.type
                            /\ imports[k].specifier.form # "bare"
                            /\ SpecifiedTarget(IndexedFiles[a].path,
                                               imports[k].specifier, disk)
                                  = <<Location(IndexedFiles[b].path)>>

\* the graph is built, a.js names a bare module and a path that is not a
\* file, and the graph holds an imports or requires edge
C7_Witness ==
    /\ Initialized
    /\ ~engineConfig.includeNodeModules
    /\ \E k \in 1..Len(disk[LocA].imports) : disk[LocA].imports[k].specifier.form = "bare"
    /\ \E i \in 1..Len(engine.dependencyGraph.edges) :
          engine.dependencyGraph.edges[i].type \in ImportTypes

\* the nearest enclosing function of a call has a resolvable name
ResolvableCaller(site) ==
    /\ CurrentFunctionName(site.ancestors) # NoName
    /\ CurrentFunctionName(site.ancestors) # "anonymous"

\* C8: for every call whose callee is the name of an indexed function B and
\* whose nearest enclosing function in file F has a resolvable name A, the
\* built graph has a calls edge from function:F:A to the node of a function B
\* in a file that defines B, with weight >= 1.
C8_CallEdgesExist ==
    Initialized =>
        \A f \in 1..Len(IndexedFiles) :
            LET file == IndexedFiles[f]
                sites == ContentOf(file, disk).callSites
                functions == engine.codeIndex.functions
            IN \A k \in 1..Len(sites) :
                  ( /\ \E j \in 1..Len(functions) : functions[j].name = sites[k].callee
                    /\ ResolvableCaller(sites[k]) )
                  => \E i \in 1..Len(engine.dependencyGraph.edges),
                        j \in 1..Len(functions) :
                        LET e == engine.dependencyGraph.edges[i] IN
                        /\ functions[j].name = sites[k].callee
                        /\ e.type = "calls"
                        /\ e.source = FunctionId(file.path,
                                          CurrentFunctionName(sites[k].ancestors))
                        /\ e.target = FunctionId(functions[j].filePath, functions[j].name)
                        /\ e.metadata.weight >= 1

(***************************************************************************)
(* Properties of the engine's queries (SpecEngine).                        *)
(***************************************************************************)
\* C9: on an engine on which initialize has never been called, mapTaskToCode
\* fails with the not-initialized error and predictChanges with the
\* graph-not-built error, and neither call changes codeIndex or
\* dependencyGraph.
C9_QueriesBeforeInitialize ==
    init.calls = 0 =>
        /\ call.op = "mapTaskToCode" =>
              /\ call.outcome = Error("Code mapping engine not initialized")
              /\ engine = call.engineBefore
              /\ engine.codeIndex.isNull /\ engine.dependencyGraph.isNull
        /\ call.op = "predictChanges" =>
              /\ call.outcome = Error("Dependency graph not built")
              /\ engine = call.engineBefore
              /\ engine.codeIndex.isNull /\ engine.dependencyGraph.isNull

\* mapTaskToCode has just run on an engine never initialized
C9_Witness ==
    /\ init.calls = 0
    /\ call.op = "mapTaskToCode"
    /\ call.outcome.kind = "error"

\* C10: on an engine whose initialize call has completed, mapTaskToCode
\* returns a list of MappingResults and does not fail with the
\* missing-semantic-analyzer error.
C10_AnalyzerPopulated ==
    (Initialized /\ call.op = "mapTaskToCode") => call.outcome.kind = "ok"

(***************************************************************************)
(* Properties of initialize on a root that cannot be read (SpecEngine).    *)
(***************************************************************************)
\* C11: initialize(path) raises an error to its caller when the root path
\* cannot be read as a directory; it never completes normally in that case.
C11_UnreadableRootThrows ==
    (init.calls >= 1 /\ ~ReaddirResolves(init.codebasePath, disk)) => ~Initialized

(***************************************************************************)
(* Properties of generateCodeModificationSuggestions (SpecEngine).         *)
(***************************************************************************)
\* C12: on an initialized engine, when mapping and prediction succeed,
\* generateCodeModificationSuggestions(task) does not fail; it returns
\* {mappingResults, changeImpact, modificationPlan}, where the plan lists
\* for each mapping result the file path of its code element with the
\* suggestion 'Implement <task.title> here', and potentialImpact is the
\* number of impacted files of the change impact.
C12_SuggestionsReturned ==
    ( /\ call.op = "generateCodeModificationSuggestions"
      /\ Initialized
      /\ MapTaskToCodeOf(engine, globalSemanticAnalyzer) = Ok
      /\ PredictChangesOf(engine) = Ok )
    => /\ call.outcome.kind = "ok"
       /\ LET plan == call.outcome.value.modificationPlan
              results == call.outcome.value.mappingResults
          IN /\ results = call.mappingResults
             /\ Len(plan.suggestedChanges) = Len(results)
             /\ \A i \in 1..Len(results) :
                   /\ plan.filesToModify[i] = results[i].codeElement.filePath
                   /\ plan.suggestedChanges[i].filePath = results[i].codeElement.filePath
                   /\ plan.suggestedChanges[i].suggestion
                         = <<"Implement ", call.task.title, " here">>
             /\ plan.potentialImpact
                   = Len(call.outcome.value.changeImpact.impactAnalysis.impactedFiles)

(***************************************************************************)
(* CodebaseIndexer under overlapping calls (SpecIndexer). indexCodebase is *)
(* an async function: it runs without interruption up to each await, and  *)
(* other calls run in between. The index objects live in indexer.heap;     *)
(* indexer.codeIndex is this.codeIndex, a reference into the heap;         *)
(* indexer.tasks are the calls made so far, in the order they started.     *)
(***************************************************************************)
\* the disks of SpecIndexer: a.js and b.js may fail to be read or parsed,
\* and the directory lib may be unreadable
IndexerDisks ==
    { [l \in {LocA, LocB, LocLib} \cup (IF libFault THEN {SubSeq(LocLib, 1, 2)} ELSE {}) |->
          IF l = LocA
          THEN (IF faultA = "none"
                THEN ContentA(<<>>, "FunctionDeclaration", <<"bar">>, FALSE)
                ELSE [fault |-> faultA])
          ELSE IF l = LocB
          THEN (IF faultB = "none" THEN ContentB ELSE [fault |-> faultB])
          ELSE IF l = LocLib THEN ContentLib
          ELSE [fault |-> "readdir"]] :
        faultA \in {"none", "read", "parse"}, faultB \in {"none", "read", "parse"},
        libFault \in BOOLEAN }

\* the roots indexCodebase is called with: '/r', '/r/lib', '/missing'
IndexerRoots ==
    { [abs |-> TRUE, segs |-> RootSegs],
      [abs |-> TRUE, segs |-> SubSeq(LocLib, 1, 2)],
      MissingRoot }

\* resetIndex on an alternative footing: the object at hand is emptied
ResetIndex_InPlace(ix) == [ix EXCEPT !.heap[ix.codeIndex] = EmptyIndex]

\* resetIndex: this.codeIndex becomes a fresh object
ResetIndex(ix) ==
    [ix EXCEPT !.heap = Append(@, EmptyIndex), !.codeIndex = Len(ix.heap) + 1]

InFlight(task) == task.pc # "done"

InitIndexer ==
    /\ dependencyGraph = EmptyGraph
    /\ call = NoCall
    /\ disk \in IndexerDisks
    /\ engineConfig = [includeNodeModules |-> FALSE]
    /\ engine = [codeIndex |-> Undefined, dependencyGraph |-> Undefined]
    /\ semanticIndex = [files |-> {}, functions |-> {}, classes |-> {}]
    /\ globalSemanticAnalyzer = Undefined
    /\ init = [pc |-> "idle", calls |-> 0, completed |-> 0]
    /\ input = NoInput
    /\ indexer = [heap |-> <<EmptyIndex>>, codeIndex |-> 1, tasks |-> <<>>]

indexerRest == <<dependencyGraph, call, disk, engineConfig, engine, semanticIndex,
                 globalSemanticAnalyzer, init, input>>

\* indexCodebase(codebasePath) up to the await of fs.readdir: resetIndex.
\* A call is `alone` while no other call is in flight during its run.
StartIndexCodebase(codebasePath) ==
    /\ Len(indexer.tasks) < MaxIndexCalls
    /\ LET others == \E t \in 1..Len(indexer.tasks) : InFlight(indexer.tasks[t])
           reset == ResetIndex(indexer)
       IN indexer' = [reset EXCEPT !.tasks =
              Append([t \in 1..Len(@) |->
                         IF InFlight(@[t]) THEN [@[t] EXCEPT !.alone = FALSE] ELSE @[t]],
                     [root |-> codebasePath, pc |-> "readdir", todo |-> <<>>,
                      alone |-> ~others, returned |-> 0, snapshot |-> Undefined])]
    /\ UNCHANGED indexerRest

\* scanDirectory: readdir settles; a rejection is caught and ends the scan
ReaddirStep(t) ==
    /\ t \in 1..Len(indexer.tasks)
    /\ indexer.tasks[t].pc = "readdir"
    /\ LET todo == IF ReaddirResolves(indexer.tasks[t].root, disk)
                   THEN ScanOrder(indexer.tasks[t].root, disk) ELSE <<>>
       IN indexer' = [indexer EXCEPT !.tasks[t].todo = todo,
                                     !.tasks[t].pc = IF todo = <<>> THEN "scanned"
                                                     ELSE "files"]
    /\ UNCHANGED indexerRest

\* indexFile: the awaits of one file settle, and its entries are pushed
\* into the index this.codeIndex refers to at that moment
IndexFileStep(t) ==
    /\ t \in 1..Len(indexer.tasks)
    /\ indexer.tasks[t].pc = "files"
    /\ LET todo == indexer.tasks[t].todo IN
       indexer' = [indexer EXCEPT
           !.heap[indexer.codeIndex] = IndexFileAt(@, Head(todo), disk),
           !.tasks[t].todo = Tail(todo),
           !.tasks[t].pc = IF Tail(todo) = <<>> THEN "scanned" ELSE "files"]
    /\ UNCHANGED indexerRest

\* indexCodebase after the scan: updateMetadata, return this.codeIndex
FinishIndexCodebase(t) ==
    /\ t \in 1..Len(indexer.tasks)
    /\ indexer.tasks[t].pc = "scanned"
    /\ LET updated == UpdateMetadata(indexer.heap[indexer.codeIndex]) IN
       indexer' = [indexer EXCEPT
           !.heap[indexer.codeIndex] = updated,
           !.tasks[t].pc = "done",
           !.tasks[t].returned = indexer.codeIndex,
           !.tasks[t].snapshot = updated]
    /\ UNCHANGED indexerRest

NextIndexer ==
    \/ \E codebasePath \in IndexerRoots : StartIndexCodebase(codebasePath)
    \/ \E t \in 1..MaxIndexCalls : ReaddirStep(t)
    \/ \E t \in 1..MaxIndexCalls : IndexFileStep(t)
    \/ \E t \in 1..MaxIndexCalls : FinishIndexCodebase(t)

SpecIndexer == InitIndexer /\ [][NextIndexer]_vars

(***************************************************************************)
(* Properties of the CodebaseIndexer (SpecIndexer).                        *)
(***************************************************************************)
\* C13: when initialize calls on one engine overlap, their mutations of the
\* shared CodeIndex do not interleave: the index each call finishes with
\* holds exactly the entries of one complete scan of a single root.
C13_InitializationSerialized ==
    \A t \in 1..Len(indexer.tasks) :
        indexer.tasks[t].pc = "done" =>
            \E root \in IndexerRoots :
                indexer.tasks[t].snapshot = IndexCodebase(root, disk)

(***************************************************************************)
(* Vectors and similarity. A vector is a function from terms to weights;   *)
(* null is Undefined. Weights are integers. A cosine dot / sqrt(sq) is     *)
(* kept exact as the pair [dot, sq] with sq > 0: cosineDistance returns    *)
(* 1 - cosine and calculateSimilarity 1 - (1 - cosine), the cosine itself. *)
(***************************************************************************)
RECURSIVE SumOver(_, _)
SumOver(f, S) ==
    IF S = {} THEN 0
    ELSE LET x == CHOOSE x \in S : TRUE IN f[x] + SumOver(f, S \ {x})

\* the loop of cosineDistance over the terms of vector1
DotProduct(vector1, vector2) ==
    LET shared == { term \in DOMAIN vector1 :
                       term \in DOMAIN vector2 /\ vector2[term] # 0 }
    IN SumOver([term \in shared |-> vector1[term] * vector2[term]], shared)

\* the square of a vector's magnitude
SquaredMagnitude(vector) ==
    SumOver([term \in DOMAIN vector |-> vector[term] * vector[term]], DOMAIN vector)

\* the cosine 0, for which cosineDistance returns 1
NoCosine == [dot |-> 0, sq |-> 1]

\* cosineDistance(vector1, vector2), as the cosine c it returns 1 - c of
CosineDistance(vector1, vector2) ==
    IF \/ vector1 = Undefined \/ vector2 = Undefined
       \/ DOMAIN vector1 = {} \/ DOMAIN vector2 = {}
    THEN [oneMinus |-> NoCosine]
    ELSE IF SquaredMagnitude(vector1) = 0 \/ SquaredMagnitude(vector2) = 0
         THEN [oneMinus |-> NoCosine]
         ELSE [oneMinus |-> [dot |-> DotProduct(vector1, vector2),
                             sq |-> SquaredMagnitude(vector1) * SquaredMagnitude(vector2)]]

\* calculateSimilarity(vector1, vector2): 1 - distance
CalculateSimilarity(vector1, vector2) == CosineDistance(vector1, vector2).oneMinus

\* x >= y for two numbers of the form dot / sqrt(sq)
AtLeast(x, y) ==
    IF x.dot >= 0 /\ y.dot >= 0 THEN x.dot * x.dot * y.sq >= y.dot * y.dot * x.sq
    ELSE IF x.dot >= 0 THEN TRUE
    ELSE IF y.dot >= 0 THEN FALSE
    ELSE x.dot * x.dot * y.sq <= y.dot * y.dot * x.sq

(***************************************************************************)
(* SemanticAnalyzer.findSimilarElements. The semantic index is given as    *)
(* the elements of its three maps in insertion order, and the query as the *)
(* vector built from its tokens.                                           *)
(***************************************************************************)
\* results.sort((a, b) => b.similarity - a.similarity), left out
SortBySimilarity_Unsorted(results) == results

\* results.sort((a, b) => b.similarity - a.similarity): stable, best first
RECURSIVE SortBySimilarity(_)
SortBySimilarity(results) ==
    IF results = <<>> THEN <<>>
    ELSE LET sorted == SortBySimilarity(SubSeq(results, 1, Len(results) - 1))
             x == results[Len(results)]
             ahead == { i \in 1..Len(sorted) : AtLeast(sorted[i].similarity, x.similarity) }
             n == IF ahead = {} THEN 0 ELSE CHOOSE i \in ahead : \A j \in ahead : j <= i
         IN SubSeq(sorted, 1, n) \o <<x>> \o SubSeq(sorted, n + 1, Len(sorted))

\* one of the three search loops of findSimilarElements
SearchMap(items, type, queryVector, config) ==
    LET scored == [i \in 1..Len(items) |->
                      [type |-> type, item |-> items[i],
                       similarity |-> CalculateSimilarity(queryVector, items[i].vector)]]
        Kept(result) == AtLeast(result.similarity, config.threshold)
    IN SelectSeq(scored, Kept)

\* findSimilarElements(query, options), from the query's vector on
FindSimilarElements(queryVector, index, options, analyzerConfig) ==
    LET defaults == [limit |-> 10, types |-> <<"files", "functions", "classes">>,
                     threshold |-> analyzerConfig.similarityThreshold]
        config == ObjectAssign(defaults, options)
        results ==
            (IF Includes(config.types, "files")
             THEN SearchMap(index.files, "file", queryVector, config) ELSE <<>>)
            \o (IF Includes(config.types, "functions")
                THEN SearchMap(index.functions, "function", queryVector, config) ELSE <<>>)
            \o (IF Includes(config.types, "classes")
                THEN SearchMap(index.classes, "class", queryVector, config) ELSE <<>>)
    IN Slice(SortBySimilarity(results), config.limit)

(***************************************************************************)
(* MappingAlgorithm: rankResultsByDependencies and generateMappingResults. *)
(* Scores are integers in units of 1/ScoreUnit. A dependency graph object  *)
(* is null, an object without getNodeDependencies ("plain"), a             *)
(* DependencyAnalyzer over a graph ("analyzer"), or an object whose        *)
(* getNodeDependencies returns the names it keeps per element ("names").   *)
(***************************************************************************)
ScoreUnit == 1000

\* a.includes(b) for the strings of DependencyNames
StringIncludes(a, b) == a = b \/ (a = "auth-service" /\ b = "auth")

\* getElementKey(element): `${type}:${filePath}:${name}`
GetElementKey(element) == <<element.type, element.item.filePath, element.item.name>>

(***************************************************************************)
(* MappingAlgorithm.combineSearchResults. Similarities are exact fractions *)
(* in lowest terms and weights are in tenths; rounding is left out.        *)
(***************************************************************************)
RECURSIVE Gcd(_, _)
Gcd(a, b) == IF b = 0 THEN a ELSE Gcd(b, a % b)

Fraction(num, den) == [num |-> num \div Gcd(num, den), den |-> den \div Gcd(num, den)]

\* `${value}` for a property of an object: 'undefined' when it is missing
Interpolated(obj, field) == IF field \in DOMAIN obj THEN obj[field] ELSE "undefined"

\* the Map key: `${result.type}:${result.item.filePath}:${result.item.name}`
CombinedKey(result) ==
    <<result.type, Interpolated(result.item, "filePath"), Interpolated(result.item, "name")>>

\* one turn of the inner loop: the Map, as the sequence of its entries in
\* insertion order, after `result` of a result set of the given weight
Combine(map, result, weight) ==
    LET key == CombinedKey(result) IN
    IF \E i \in 1..Len(map) : map[i].key = key
    THEN LET i == CHOOSE j \in 1..Len(map) : map[j].key = key
             existing == map[i].value
             sum == Fraction(existing.similarity.num * existing.weight
                                 * result.similarity.den
                             + result.similarity.num * weight * existing.similarity.den,
                             existing.similarity.den * result.similarity.den)
         IN [map EXCEPT ![i].value.similarity =
                            Fraction(sum.num, sum.den * (existing.weight + weight)),
                        ![i].value.weight = existing.weight + weight]
    ELSE Append(map, [key |-> key,
                      value |-> ObjectAssign(result,
                                    [weight |-> weight,
                                     originalSimilarity |-> result.similarity])])

RECURSIVE CombineResults(_, _, _)
CombineResults(map, results, weight) ==
    IF results = <<>> THEN map
    ELSE CombineResults(Combine(map, Head(results), weight), Tail(results), weight)

RECURSIVE CombineResultSets(_, _)
CombineResultSets(map, resultSets) ==
    IF resultSets = <<>> THEN map
    ELSE CombineResultSets(CombineResults(map, Head(resultSets).results,
                                          Head(resultSets).weight),
                           Tail(resultSets))

\* combined.sort((a, b) => b.similarity - a.similarity): stable
RECURSIVE SortCombined(_)
SortCombined(combined) ==
    IF combined = <<>> THEN <<>>
    ELSE LET sorted == SortCombined(SubSeq(combined, 1, Len(combined) - 1))
             x == combined[Len(combined)]
             ahead == { i \in 1..Len(sorted) :
                          sorted[i].similarity.num * x.similarity.den
                              >= x.similarity.num * sorted[i].similarity.den }
             n == IF ahead = {} THEN 0 ELSE CHOOSE i \in ahead : \A j \in ahead : j <= i
         IN SubSeq(sorted, 1, n) \o <<x>> \o SubSeq(sorted, n + 1, Len(sorted))

\* combineSearchResults(resultSets)
CombineSearchResults(resultSets) ==
    LET map == CombineResultSets(<<>>, resultSets) IN
    SortCombined([i \in 1..Len(map) |-> map[i].value])

\* the three result sets findSimilarCodeElements combines, with its weights
ResultSetsOf(titleResults, descriptionResults, keywordResults) ==
    <<[results |-> titleResults, weight |-> 3],
      [results |-> descriptionResults, weight |-> 4],
      [results |-> keywordResults, weight |-> 3]>>

\* dependencyGraph.getNodeDependencies(elementKey) || []
ElementDependencies(graph, elementKey) ==
    IF graph.kind = "analyzer"
    THEN GetNodeDependenciesOf(graph.graph, elementKey, EmptyObject)
    ELSE IF elementKey \in DOMAIN graph.names THEN graph.names[elementKey] ELSE <<>>

\* the loops over taskDependencies and elementDependencies: 0.1 per match
DependencyScoreOf(taskDependencies, elementDependencies) ==
    (ScoreUnit \div 10)
    * Cardinality({ <<i, j>> \in (1..Len(taskDependencies)) \X (1..Len(elementDependencies)) :
                      \/ StringIncludes(elementDependencies[j], taskDependencies[i])
                      \/ StringIncludes(taskDependencies[i], elementDependencies[j]) })

\* element.similarity * 0.8 + dependencyScore * 0.2
FinalScoreOf(similarity, dependencyScore) == (similarity * 8 + dependencyScore * 2) \div 10

\* rankedResults.sort((a, b) => b.finalScore - a.finalScore)
RECURSIVE SortByFinalScore(_)
SortByFinalScore(array) ==
    IF array = <<>> THEN <<>>
    ELSE LET sorted == SortByFinalScore(SubSeq(array, 1, Len(array) - 1))
             x == array[Len(array)]
             ahead == { i \in 1..Len(sorted) : sorted[i].finalScore >= x.finalScore }
             n == IF ahead = {} THEN 0 ELSE CHOOSE i \in ahead : \A j \in ahead : j <= i
         IN SubSeq(sorted, 1, n) \o <<x>> \o SubSeq(sorted, n + 1, Len(sorted))

\* rankResultsByDependencies(similarElements, dependencyGraph, task)
RankResultsByDependencies(similarElements, graph, task) ==
    IF graph = Undefined \/ graph.kind = "plain"
    THEN Returned(similarElements)
    ELSE LET taskDependencies == IF "dependencies" \in DOMAIN task
                                 THEN task.dependencies ELSE <<>>
             DependenciesOf(i) == ElementDependencies(graph, GetElementKey(similarElements[i]))
             Ranked(element, elementDependencies) ==
                 LET dependencyScore == DependencyScoreOf(taskDependencies, elementDependencies)
                 IN ObjectAssign(element,
                        [dependencyScore |-> dependencyScore,
                         finalScore |-> FinalScoreOf(element.similarity, dependencyScore)])
         IN \* elemDep.includes of an entry that is an object, not a string
            IF /\ graph.kind = "analyzer"
               /\ taskDependencies # <<>>
               /\ \E i \in 1..Len(similarElements) : DependenciesOf(i) # <<>>
            THEN Error("TypeError: elemDep.includes is not a function")
            ELSE Returned(SortByFinalScore(
                     [i \in 1..Len(similarElements) |->
                         Ranked(similarElements[i], DependenciesOf(i))]))

\* calculateConfidence(score)
CalculateConfidence(score) ==
    IF score * 10 >= 8 * ScoreUnit THEN "high"
    ELSE IF score * 10 >= 6 * ScoreUnit THEN "medium"
    ELSE "low"

\* `a || b` for a number a: 0 is falsy
OrElse(a, b) == IF a = 0 THEN b ELSE a

\* generateMappingResults(rankedResults, task)
GenerateMappingResults(rankedResults, task, config) ==
    LET limitedResults == Slice(rankedResults, config.maxResults)
        Emitted(result) ==
            LET finalScore == IF "finalScore" \in DOMAIN result
                              THEN OrElse(result.finalScore, result.similarity)
                              ELSE result.similarity
            IN [task |-> [id |-> Get(task, "id"), title |-> Get(task, "title"),
                          type |-> Get(task, "type")],
                codeElement |-> [type |-> result.type, name |-> result.item.name,
                                 filePath |-> result.item.filePath,
                                 location |-> [start |-> 0, end |-> 0]],
                mapping |-> [similarity |-> result.similarity,
                             dependencyScore |-> IF "dependencyScore" \in DOMAIN result
                                                 THEN OrElse(result.dependencyScore, 0)
                                                 ELSE 0,
                             finalScore |-> finalScore,
                             confidence |-> CalculateConfidence(finalScore)]]
    IN [i \in 1..Len(limitedResults) |-> Emitted(limitedResults[i])]

\* mapTask(task, codeIndex, dependencyGraph) from the similar elements
\* findSimilarCodeElements found
MapTaskOf(similarElements, graph, task, config) ==
    LET ranked == RankResultsByDependencies(similarElements, graph, task)
    IN IF ranked.kind = "error" THEN ranked
       ELSE Returned(GenerateMappingResults(ranked.value, task, config))

(***************************************************************************)
(* SemanticAnalyzer.analyzeCodebase as the sequence of its calls into the  *)
(* TF-IDF model. The weights are the library's; a weight is kept as what   *)
(* it is computed from: the term's count in the document, and the number   *)
(* of documents and of documents with the term when it is computed.        *)
(***************************************************************************)
\* calculateTfIdfVector(tokens, docId) against the documents added so far
CalculateTfIdfVector(tokens, corpus) ==
    [t \in { tokens[i] : i \in 1..Len(tokens) } |->
        [tf |-> Cardinality({ i \in 1..Len(tokens) : tokens[i] = t }),
         documents |-> Len(corpus),
         df |-> Cardinality({ d \in 1..Len(corpus) : Includes(corpus[d].tokens, t) })]]

\* the first loop of analyzeFiles, analyzeFunctions or analyzeClasses:
\* addDocument for every element
AddDocuments(st, docs) ==
    [st EXCEPT !.corpus = @ \o docs,
               !.events = @ \o [i \in 1..Len(docs) |->
                                   [op |-> "addDocument", id |-> docs[i].id]]]

\* the second loop: the vector of every element
ComputeVectors(st, docs) ==
    [st EXCEPT !.events = @ \o [i \in 1..Len(docs) |-> [op |-> "vector", id |-> docs[i].id]],
               !.vectors = [i \in 1..Len(docs) |->
                               [id |-> docs[i].id,
                                vector |-> CalculateTfIdfVector(docs[i].tokens, st.corpus)]]
                           \o @]

\* analyzeFiles, analyzeFunctions, analyzeClasses: both loops
AnalyzeElements(st, docs) == ComputeVectors(AddDocuments(st, docs), docs)

\* the documents of the files, functions and classes of a code index
FileDocuments(codeIndex) ==
    [i \in 1..Len(codeIndex.files) |->
        [id |-> FileId(codeIndex.files[i].path), tokens |-> codeIndex.files[i].tokens]]

FunctionDocuments(codeIndex) ==
    [i \in 1..Len(codeIndex.functions) |->
        [id |-> FunctionId(codeIndex.functions[i].filePath, codeIndex.functions[i].name),
         tokens |-> codeIndex.functions[i].tokens]]

ClassDocuments(codeIndex) ==
    [i \in 1..Len(codeIndex.classes) |->
        [id |-> ClassId(codeIndex.classes[i].filePath, codeIndex.classes[i].name),
         tokens |-> codeIndex.classes[i].tokens]]

\* analyzeCodebase(codeIndex): a new TfIdf, then the three analyses in turn
AnalyzeCodebaseSteps(codeIndex) ==
    AnalyzeElements(
        AnalyzeElements(
            AnalyzeElements([corpus |-> <<>>, events |-> <<>>, vectors |-> <<>>],
                            FileDocuments(codeIndex)),
            FunctionDocuments(codeIndex)),
        ClassDocuments(codeIndex))

(***************************************************************************)
(* The functions of the analyzers studied on their own (SpecFunctions):    *)
(* `input` holds the arguments of one call, drawn from small sets, and the *)
(* action of the function puts what it returns in `call`.                  *)
(***************************************************************************)
Terms == { "export", "report" }

\* the vectors over Terms with weights in S, and null
VectorsOver(S) ==
    UNION { [D -> S] : D \in SUBSET Terms } \cup { Undefined }

CosineInputs ==
    { [of |-> "cosineDistance", vector1 |-> v1, vector2 |-> v2] :
        v1 \in VectorsOver(-1..MaxWeight), v2 \in VectorsOver(-1..MaxWeight) }

\* vectors of the elements of a semantic index: TF-IDF weights, none negative
ElementVectors ==
    { [export |-> 1], [export |-> 1, report |-> 1], [report |-> 1], [export |-> 0] }

\* a semantic index of one file, two functions and one class
SemanticIndexes ==
    { [files |-> <<[path |-> "a.js", vector |-> vf]>>,
       functions |-> <<[name |-> "foo", filePath |-> "a.js", vector |-> vg],
                       [name |-> "bar", filePath |-> "b.js", vector |-> vh]>>,
       classes |-> <<[name |-> "Svc", filePath |-> "b.js", vector |-> vc]>>] :
        vf \in ElementVectors, vg \in ElementVectors, vh \in ElementVectors,
        vc \in ElementVectors }

\* thresholds 0.5, 0.7, 1/sqrt(2) and 1
Thresholds == { [dot |-> 1, sq |-> 4], [dot |-> 7, sq |-> 100], [dot |-> 1, sq |-> 2],
                [dot |-> 1, sq |-> 1] }

FindOptions ==
    { [limit |-> l, types |-> t, threshold |-> th] :
        l \in 1..MaxLimit,
        t \in { <<"files", "functions", "classes">>, <<"functions">>,
                <<"classes", "files">> },
        th \in Thresholds }
    \cup { EmptyObject }

FindInputs ==
    { [of |-> "findSimilarElements", queryVector |-> q, index |-> ix, options |-> o] :
        q \in { [export |-> 1], [export |-> 1, report |-> 1], [export |-> 0] },
        ix \in SemanticIndexes, o \in FindOptions }

\* SemanticAnalyzer.config.similarityThreshold: 0.7
AnalyzerDefaults == [similarityThreshold |-> [dot |-> 7, sq |-> 100]]

\* impacted files: every array of at most MaxPlanFiles files with distinct
\* paths among `paths`, sorted by weight as mergeImpactAnalysis leaves it
FileArrays(paths, weights) ==
    LET raw == UNION { [1..n -> [path : paths, weight : weights]] : n \in 0..MaxPlanFiles }
        distinct == { a \in raw : \A i, j \in 1..Len(a) : i # j => a[i].path # a[j].path }
    IN { SortByWeight(a) : a \in distinct }

\* weights below, at and above the default impactThreshold 0.5
PlanWeights == { WeightUnit \div 3, WeightUnit \div 2, WeightUnit }

\* the files of the mapping results of a call of predictChanges, in order
MappedFiles ==
    { <<>>, <<"a.js", "a.js">>, <<"a.js", "b.js">>, <<"a.js", "b.js", "a.js">> }

MappingResultsOfFiles(files) ==
    [i \in 1..Len(files) |->
        [codeElement |-> [type |-> "function", name |-> "foo", filePath |-> files[i]],
         mapping |-> [confidence |-> "high"]]]

PlanInputs ==
    { [of |-> "generateChangePlan",
       mappingResults |-> MappingResultsOfFiles(m),
       impactAnalysis |-> [impactedFiles |-> fs, dependencyFiles |-> ds,
                           totalImpactScore |-> 0],
       config |-> [impactThreshold |-> th, maxImpactedFiles |-> mx]] :
        m \in MappedFiles,
        fs \in FileArrays({ "a.js", "b.js", "c.js" }, PlanWeights),
        ds \in { d \in FileArrays({ "c.js", "d.js" }, PlanWeights) : Len(d) <= 2 },
        th \in { PredictorDefaults.impactThreshold },
        mx \in 1..MaxPlanFiles }

\* impact analyses of n impacted files and a total impact score around the
\* limits of calculateRiskLevel (20.0003.. is 20 * WeightUnit + 1)
RiskInputs ==
    { [of |-> "generateChangePlan",
       mappingResults |-> MappingResultsOfFiles(<<"1", "2", "3">>),
       impactAnalysis |->
           [impactedFiles |-> [i \in 1..n |-> [path |-> ToString(i), weight |-> WeightUnit]],
            dependencyFiles |-> <<>>,
            totalImpactScore |-> score],
       config |-> PredictorDefaults] :
        n \in 0..MaxRiskFiles,
        score \in { 0, 20 * WeightUnit, 20 * WeightUnit + 1, 21 * WeightUnit,
                    50 * WeightUnit, 50 * WeightUnit + 1, 55 * WeightUnit } }

DependencyNames == { "auth", "auth-service", "db" }

FooElement == [type |-> "function", item |-> [name |-> "foo", filePath |-> "a.js"]]
BarElement == [type |-> "function", item |-> [name |-> "bar", filePath |-> "b.js"]]

\* what findSimilarCodeElements returns: distinct elements, most similar first
SimilarElementArrays ==
    LET sims == { 6 * (ScoreUnit \div 10), 3 * (ScoreUnit \div 4), 8 * (ScoreUnit \div 10),
                  ScoreUnit }
        With(element, s) == ObjectAssign(element, [similarity |-> s, weight |-> 1])
    IN { <<>> }
       \cup { <<With(e, s)>> : e \in { FooElement, BarElement }, s \in sims }
       \cup { a \in { <<With(e[1], s), With(e[2], t)>> :
                         e \in { <<FooElement, BarElement>>, <<BarElement, FooElement>> },
                         s \in sims, t \in sims } :
                 a[1].similarity >= a[2].similarity }

GraphObjects ==
    { Undefined, [kind |-> "plain"] }
    \cup { [kind |-> "analyzer", graph |-> G] :
             G \in { EmptyGraph,
                     AddEdgeTo(PutNode(PutNode(EmptyGraph, GetElementKey(FooElement)),
                                       GetElementKey(BarElement)),
                               GetElementKey(FooElement), GetElementKey(BarElement),
                               "calls", EmptyObject) } }
    \cup { [kind |-> "names",
            names |-> (GetElementKey(FooElement) :> f) @@ (GetElementKey(BarElement) :> b)] :
             f \in { <<>>, <<"auth-service">>, <<"auth", "db">> },
             b \in { <<>>, <<"db">> } }

MapTaskInputs ==
    { [of |-> "mapTask", similarElements |-> s, graph |-> g, task |-> t,
       config |-> [maxResults |-> m]] :
        s \in SimilarElementArrays, g \in GraphObjects,
        t \in { [title |-> "export report"],
                [title |-> "export report", dependencies |-> <<>>],
                [title |-> "export report", dependencies |-> <<"auth">>],
                [title |-> "export report", dependencies |-> <<"auth", "db">>] },
        m \in { 1, 10 } }

\* graphs for the impact analysis: five nodes in two files, and at most
\* MaxMergeEdges of the edges of MergeEdgePool, in the order of the pool
MergeNodes ==
    <<FunctionId("a.js", "foo"), FunctionId("a.js", "bar"), FunctionId("b.js", "baz"),
      ClassId("b.js", "Svc"), FileId("b.js")>>

MergeEdgePool ==
    <<[source |-> FunctionId("b.js", "baz"), target |-> FunctionId("a.js", "foo"),
       type |-> "calls"],
      [source |-> FunctionId("b.js", "baz"), target |-> FunctionId("a.js", "bar"),
       type |-> "calls"],
      [source |-> ClassId("b.js", "Svc"), target |-> FunctionId("b.js", "baz"),
       type |-> "contains"],
      [source |-> FileId("b.js"), target |-> FunctionId("a.js", "foo"),
       type |-> "imports"],
      [source |-> FunctionId("a.js", "bar"), target |-> FunctionId("a.js", "foo"),
       type |-> "calls"],
      [source |-> ClassId("b.js", "Svc"), target |-> FunctionId("a.js", "foo"),
       type |-> "extends"]>>

RECURSIVE WithNodes(_, _)
WithNodes(G, ids) ==
    IF ids = <<>> THEN G ELSE WithNodes(PutNode(G, Head(ids)), Tail(ids))

RECURSIVE WithEdges(_, _)
WithEdges(G, edges) ==
    IF edges = <<>> THEN G
    ELSE WithEdges(AddEdgeTo(G, Head(edges).source, Head(edges).target,
                             Head(edges).type, EmptyObject),
                   Tail(edges))

MergeGraphs ==
    { WithEdges(WithNodes(EmptyGraph, MergeNodes),
                SelectSeq(MergeEdgePool, LAMBDA e : e \in chosen)) :
        chosen \in { c \in SUBSET { MergeEdgePool[i] : i \in 1..Len(MergeEdgePool) } :
                       Cardinality(c) <= MaxMergeEdges } }

\* the code elements to modify: foo, bar or both, each with a confidence
MergeElements ==
    LET Element(name, confidence) ==
            [id |-> FunctionId("a.js", name), type |-> "function", name |-> name,
             filePath |-> "a.js", confidence |-> confidence]
        ones == { <<Element(n, c)>> : n \in { "foo", "bar" }, c \in Confidences }
    IN ones \cup { a \o b : a \in ones, b \in ones }

\* the impact results analyzeImpact hands to mergeImpactAnalysis for a graph
\* object with getNodeDependencies and no getImpactAnalysis
MergeInputs ==
    { [of |-> "mergeImpactAnalysis", impactResults |-> AnalyzeImpact(elements, G, TRUE)] :
        elements \in { e \in MergeElements : Len(e) = 1 \/ e[1].id # e[2].id },
        G \in MergeGraphs }

\* the arrays of at most two different elements of S
UpToTwoOf(S) ==
    { <<>> } \cup { <<x>> : x \in S }
    \cup { a \in { <<x, y>> : x \in S, y \in S } : a[1] # a[2] }

\* code indexes whose elements carry the tokens tokenizeAndStem gives for
\* their name and code
TokenizedIndexes ==
    { [files |-> fs, functions |-> gs, classes |-> cs] :
        fs \in UpToTwoOf({ [path |-> "a.js", tokens |-> <<"export">>],
                           [path |-> "b.js", tokens |-> <<"report">>] }),
        gs \in UpToTwoOf({ [name |-> "foo", filePath |-> "a.js",
                            tokens |-> <<"export", "report", "export">>],
                           [name |-> "bar", filePath |-> "b.js", tokens |-> <<"export">>] }),
        cs \in { <<>>, <<[name |-> "Svc", filePath |-> "b.js", tokens |-> <<"report">>]>> } }

AnalyzeInputs == { [of |-> "analyzeCodebase", codeIndex |-> ix] : ix \in TokenizedIndexes }

\* the entries of a semantic index: files have no name and no filePath
SearchedItems ==
    <<[type |-> "file", item |-> [path |-> "a.js", keywords |-> <<>>]],
      [type |-> "file", item |-> [path |-> "b.js", keywords |-> <<>>]],
      [type |-> "function",
       item |-> [name |-> "foo", filePath |-> "a.js", keywords |-> <<>>]]>>

\* what findSimilarElements can return for one query: some of the entries,
\* each with a similarity of 7/10 or 9/10, the most similar first
SearchResults(similarities) ==
    LET Scored(pick) ==
            [i \in 1..Len(SearchedItems) |->
                ObjectAssign(SearchedItems[i], [similarity |-> Fraction(pick[i], 10)])]
        Found(result) == result.similarity.num > 0
        Descending(results) ==
            \A i \in 1..Len(results), j \in 1..Len(results) :
                i < j => results[i].similarity.num * results[j].similarity.den
                             >= results[j].similarity.num * results[i].similarity.den
    IN { r \in { SelectSeq(Scored(pick), Found) :
                    pick \in [1..Len(SearchedItems) -> {0} \cup similarities] } :
           Descending(r) }

CombineInputs ==
    { [of |-> "combineSearchResults", resultSets |-> ResultSetsOf(t, d, k)] :
        t \in SearchResults({ 7, 9 }), d \in SearchResults({ 7, 9 }),
        k \in SearchResults({ 9 }) }

\* predictChanges on mapping results for foo, bar or both, with a graph
\* object that has no getImpactAnalysis; `traverses` says whether it has a
\* getNodeDependencies method
PredictInputs ==
    LET Result(name, confidence) ==
            MappingResultOf([title |-> "export report"],
                            [name |-> name, filePath |-> "a.js"], confidence)
    IN { [of |-> "predictChanges", mappingResults |-> m, graph |-> G, traverses |-> t] :
           m \in { <<Result("foo", "high")>>, <<Result("bar", "low")>>,
                    <<Result("foo", "medium"), Result("bar", "high")>> },
           G \in MergeGraphs, t \in BOOLEAN }

\* call graphs of five functions of one file: at most MaxCallEdges of the
\* calls of CallEdgePool, in the order of the pool
CallGraphNodes ==
    <<FunctionId("a.js", "foo"), FunctionId("a.js", "bar"), FunctionId("a.js", "baz"),
      FunctionId("a.js", "qux"), FunctionId("a.js", "quux")>>

CallEdgePool ==
    LET Calls(caller, callee) ==
            [source |-> FunctionId("a.js", caller), target |-> FunctionId("a.js", callee),
             type |-> "calls"]
    IN <<Calls("foo", "bar"), Calls("bar", "baz"), Calls("foo", "baz"),
         Calls("baz", "qux"), Calls("qux", "quux"), Calls("baz", "foo"),
         Calls("quux", "quux")>>

CallGraphs ==
    { WithEdges(WithNodes(EmptyGraph, CallGraphNodes),
                SelectSeq(CallEdgePool, LAMBDA e : e \in chosen)) :
        chosen \in { c \in SUBSET { CallEdgePool[i] : i \in 1..Len(CallEdgePool) } :
                       Cardinality(c) <= MaxCallEdges } }

\* getImpactAnalysis of foo or of quux, under the default configuration and
\* under a maxDepth of 2
ImpactInputs ==
    { [of |-> "getImpactAnalysis", graph |-> G, nodeId |-> n,
       config |-> [AnalyzerConfig EXCEPT !.maxDepth = d]] :
        G \in CallGraphs,
        n \in { FunctionId("a.js", "foo"), FunctionId("a.js", "quux") },
        d \in { 2, AnalyzerConfig.maxDepth } }

FunctionInputs ==
    CosineInputs \cup FindInputs \cup PlanInputs \cup RiskInputs \cup MapTaskInputs
    \cup MergeInputs \cup AnalyzeInputs \cup ImpactInputs \cup PredictInputs
    \cup CombineInputs

InitFunctions ==
    /\ dependencyGraph = EmptyGraph
    /\ call = NoCall
    /\ disk = EmptyObject
    /\ engineConfig = [includeNodeModules |-> FALSE]
    /\ engine = [codeIndex |-> Undefined, dependencyGraph |-> Undefined]
    /\ semanticIndex = [files |-> {}, functions |-> {}, classes |-> {}]
    /\ globalSemanticAnalyzer = Undefined
    /\ init = [pc |-> "idle", calls |-> 0, completed |-> 0]
    /\ input \in FunctionInputs
    /\ indexer = IndexerIdle

CallCosineDistance ==
    /\ call = NoCall
    /\ input.of = "cosineDistance"
    /\ call' = [made |-> TRUE, op |-> "cosineDistance",
                result |-> CosineDistance(input.vector1, input.vector2)]
    /\ UNCHANGED <<dependencyGraph, engineVars>>

CallFindSimilarElements ==
    /\ call = NoCall
    /\ input.of = "findSimilarElements"
    /\ call' = [made |-> TRUE, op |-> "findSimilarElements",
                result |-> FindSimilarElements(input.queryVector, input.index,
                                               input.options, AnalyzerDefaults)]
    /\ UNCHANGED <<dependencyGraph, engineVars>>

\* predictChanges from the merged impact analysis on: the files to modify
\* of the mapping results, then generateChangePlan
CallGenerateChangePlan ==
    /\ call = NoCall
    /\ input.of = "generateChangePlan"
    /\ call' = [made |-> TRUE, op |-> "generateChangePlan",
                result |-> GenerateChangePlan(input.impactAnalysis,
                                              FilesToModifyOf(input.mappingResults),
                                              input.config)]
    /\ UNCHANGED <<dependencyGraph, engineVars>>

\* MappingAlgorithm.mapTask, after findSimilarCodeElements
CallMapTask ==
    /\ call = NoCall
    /\ input.of = "mapTask"
    /\ call' = [made |-> TRUE, op |-> "mapTask",
                outcome |-> MapTaskOf(input.similarElements, input.graph, input.task,
                                      input.config)]
    /\ UNCHANGED <<dependencyGraph, engineVars>>

\* ChangePredictor.mergeImpactAnalysis
CallMergeImpactAnalysis ==
    /\ call = NoCall
    /\ input.of = "mergeImpactAnalysis"
    /\ call' = [made |-> TRUE, op |-> "mergeImpactAnalysis",
                result |-> MergeImpactAnalysis(input.impactResults)]
    /\ UNCHANGED <<dependencyGraph, engineVars>>

\* SemanticAnalyzer.analyzeCodebase
CallAnalyzeCodebase ==
    /\ call = NoCall
    /\ input.of = "analyzeCodebase"
    /\ call' = [made |-> TRUE, op |-> "analyzeCodebase",
                result |-> AnalyzeCodebaseSteps(input.codeIndex)]
    /\ UNCHANGED <<dependencyGraph, engineVars>>

\* ChangePredictor.predictChanges under the default configuration;
\* impactResults is what its call of analyzeImpact returned
CallPredictChanges ==
    /\ call = NoCall
    /\ input.of = "predictChanges"
    /\ call' = [made |-> TRUE, op |-> "ChangePredictor.predictChanges",
                impactResults |->
                    AnalyzeImpact(CodeElementsToModify(input.mappingResults),
                                  input.graph, input.traverses),
                result |-> PredictChangesResult(input.mappingResults, input.graph,
                                                input.traverses, PredictorDefaults)]
    /\ UNCHANGED <<dependencyGraph, engineVars>>

\* MappingAlgorithm.combineSearchResults
CallCombineSearchResults ==
    /\ call = NoCall
    /\ input.of = "combineSearchResults"
    /\ call' = [made |-> TRUE, op |-> "combineSearchResults",
                result |-> CombineSearchResults(input.resultSets)]
    /\ UNCHANGED <<dependencyGraph, engineVars>>

\* DependencyAnalyzer.getImpactAnalysis on the graph of the input
CallGetImpactAnalysis ==
    /\ call = NoCall
    /\ input.of = "getImpactAnalysis"
    /\ call' = [made |-> TRUE, op |-> "getImpactAnalysis",
                result |-> GetImpactAnalysisOf(input.graph, input.nodeId, input.config)]
    /\ UNCHANGED <<dependencyGraph, engineVars>>

NextFunctions ==
    \/ CallCosineDistance
    \/ CallFindSimilarElements
    \/ CallGenerateChangePlan
    \/ CallMapTask
    \/ CallMergeImpactAnalysis
    \/ CallAnalyzeCodebase
    \/ CallGetImpactAnalysis
    \/ CallPredictChanges
    \/ CallCombineSearchResults

SpecFunctions == InitFunctions /\ [][NextFunctions]_vars

(***************************************************************************)
(* Properties of findSimilarElements and cosineDistance (SpecFunctions).   *)
(***************************************************************************)
\* the elements of the index of the requested types, each with its
\* similarity to the query
Candidates(in) ==
    LET types == IF "types" \in DOMAIN in.options THEN in.options.types
                 ELSE <<"files", "functions", "classes">>
        Of(items, type, wanted) ==
            IF Includes(types, wanted)
            THEN [i \in 1..Len(items) |->
                     [type |-> type, item |-> items[i],
                      similarity |-> CalculateSimilarity(in.queryVector, items[i].vector)]]
            ELSE <<>>
    IN Of(in.index.files, "file", "files")
       \o Of(in.index.functions, "function", "functions")
       \o Of(in.index.classes, "class", "classes")

\* C14: findSimilarElements(query, {limit, types, threshold}) returns only
\* elements of the requested types whose similarity is >= threshold, in
\* order of non-increasing similarity, at most limit of them; an element it
\* omits has similarity below the threshold, or the limit is reached and the
\* element is not better than any returned one.
C14_FindSimilarElements ==
    call.op = "findSimilarElements" =>
        LET result == call.result
            candidates == Candidates(input)
            threshold == IF "threshold" \in DOMAIN input.options
                         THEN input.options.threshold
                         ELSE AnalyzerDefaults.similarityThreshold
            limit == IF "limit" \in DOMAIN input.options THEN input.options.limit ELSE 10
        IN /\ Len(result) <= limit
           /\ \A i \in 1..Len(result) :
                 /\ \E k \in 1..Len(candidates) : candidates[k] = result[i]
                 /\ AtLeast(result[i].similarity, threshold)
                 /\ \A j \in 1..Len(result) : i # j => result[i].item # result[j].item
           /\ \A i \in 1..(Len(result) - 1) :
                 AtLeast(result[i].similarity, result[i + 1].similarity)
           /\ \A k \in 1..Len(candidates) :
                 (\A i \in 1..Len(result) : result[i] # candidates[k])
                 => \/ ~AtLeast(candidates[k].similarity, threshold)
                    \/ /\ Len(result) = limit
                       /\ \A i \in 1..Len(result) :
                             AtLeast(result[i].similarity, candidates[k].similarity)

\* a call with limit 1 that returns one function and leaves out an element
\* that also reaches the threshold
C14_Witness ==
    /\ call.op = "findSimilarElements"
    /\ "limit" \in DOMAIN input.options /\ input.options.limit = 1
    /\ Len(call.result) = 1
    /\ call.result[1].type = "function"
    /\ \E k \in 1..Len(Candidates(input)) :
          /\ Candidates(input)[k] # call.result[1]
          /\ AtLeast(Candidates(input)[k].similarity, input.options.threshold)
          /\ ~AtLeast(Candidates(input)[k].similarity, call.result[1].similarity)

\* the cosine of a distance is 1, so the distance is 0
IsZeroDistance(distance) ==
    distance.oneMinus.dot > 0
    /\ distance.oneMinus.dot * distance.oneMinus.dot = distance.oneMinus.sq

\* C15: for every non-empty vector v (at least one term, any weights),
\* cosineDistance(v, v) is 0; for every vector v, cosineDistance(v, {}) is 1;
\* and the similarity 1 - cosineDistance(v1, v2) lies in [0, 1].
C15_CosineDistance ==
    call.op = "cosineDistance" =>
        /\ ( /\ input.vector1 = input.vector2
             /\ input.vector1 # Undefined
             /\ DOMAIN input.vector1 # {} )
           => IsZeroDistance(call.result)
        /\ (input.vector2 # Undefined /\ DOMAIN input.vector2 = {})
           => call.result.oneMinus = NoCosine
        /\ AtLeast(call.result.oneMinus, [dot |-> 0, sq |-> 1])
        /\ AtLeast([dot |-> 1, sq |-> 1], call.result.oneMinus)

(***************************************************************************)
(* Properties of the change plan (SpecFunctions).                          *)
(***************************************************************************)
\* C16: the change plan's riskLevel is 'high' iff totalImpactScore > 50 or
\* more than 20 files are impacted; 'medium' iff it is not high and
\* totalImpactScore > 20 or more than 10 files are impacted; otherwise
\* 'low'. The values 50, 20 files, 20 and 10 files fall in the lower level.
C16_RiskLevel ==
    call.op = "generateChangePlan" =>
        LET score == input.impactAnalysis.totalImpactScore
            files == Len(input.impactAnalysis.impactedFiles)
            high == score > 50 * WeightUnit \/ files > 20
            medium == ~high /\ (score > 20 * WeightUnit \/ files > 10)
            riskLevel == call.result.impactSummary.riskLevel
        IN /\ riskLevel = "high" <=> high
           /\ riskLevel = "medium" <=> medium
           /\ riskLevel = "low" <=> (~high /\ ~medium)

\* totalImpactScore 55 with 3 impacted files gives 'high'
C16_Witness ==
    /\ call.op = "generateChangePlan"
    /\ input.impactAnalysis.totalImpactScore = 55 * WeightUnit
    /\ Len(input.impactAnalysis.impactedFiles) = 3
    /\ call.result.impactSummary.riskLevel = "high"

\* the boundary: score 50 with 20 impacted files is 'medium'
C16_WitnessBoundary ==
    /\ call.op = "generateChangePlan"
    /\ input.impactAnalysis.totalImpactScore = 50 * WeightUnit
    /\ Len(input.impactAnalysis.impactedFiles) = 20
    /\ call.result.impactSummary.riskLevel = "medium"

\* `changes` takes the files of `files` that are not in filesToModify and
\* weigh at least the threshold, the heaviest first, no more than `most`
TakesHeaviest(changes, files, filesToModify, threshold, most) ==
    LET InPlan(file) == \E i \in 1..Len(changes) : changes[i].filePath = file.path
        Fits(file) == /\ \A i \in 1..Len(filesToModify) : filesToModify[i] # file.path
                      /\ file.weight >= threshold
        WeightOf(filePath) ==
            LET k == CHOOSE n \in 1..Len(files) : files[n].path = filePath
            IN files[k].weight
    IN /\ Len(changes) <= most
       /\ \A i \in 1..Len(changes) :
             /\ \E k \in 1..Len(files) : files[k].path = changes[i].filePath /\ Fits(files[k])
             /\ \A j \in 1..Len(changes) : i # j => changes[i].filePath # changes[j].filePath
       /\ \A i \in 1..(Len(changes) - 1) :
             WeightOf(changes[i].filePath) >= WeightOf(changes[i + 1].filePath)
       /\ \A k \in 1..Len(files) :
             (Fits(files[k]) /\ ~InPlan(files[k]))
             => /\ Len(changes) = most
                /\ \A i \in 1..Len(changes) : WeightOf(changes[i].filePath) >= files[k].weight

\* C18: secondaryChanges holds only impacted files that are not in
\* filesToModify and weigh at least impactThreshold, at most maxImpactedFiles
\* of them, the heaviest first; dependencyChecks likewise for the dependency
\* files, at most half of maxImpactedFiles; primaryChanges has exactly one
\* entry per distinct mapped file.
C18_ChangePlan ==
    call.op = "generateChangePlan" =>
        LET plan == call.result
            mapped == { input.mappingResults[i].codeElement.filePath :
                          i \in 1..Len(input.mappingResults) }
            filesToModify == FilesToModifyOf(input.mappingResults)
        IN /\ TakesHeaviest(plan.secondaryChanges, input.impactAnalysis.impactedFiles,
                            filesToModify, input.config.impactThreshold,
                            input.config.maxImpactedFiles)
           /\ TakesHeaviest(plan.dependencyChecks, input.impactAnalysis.dependencyFiles,
                            filesToModify, input.config.impactThreshold,
                            input.config.maxImpactedFiles \div 2)
           /\ 2 * Len(plan.dependencyChecks) <= input.config.maxImpactedFiles
           /\ Len(plan.primaryChanges) = Cardinality(mapped)
           /\ \A f \in mapped :
                 \E i \in 1..Len(plan.primaryChanges) : plan.primaryChanges[i].filePath = f

\* a plan for two results in one file and maxImpactedFiles 1: one impacted
\* file is taken, a second heavy enough one is cut off and a third is too
\* light; no dependency file is checked (half of 1) though one is heavy enough
C18_Witness ==
    /\ call.op = "generateChangePlan"
    /\ Len(input.mappingResults) = 2
    /\ Len(call.result.primaryChanges) = 1
    /\ input.config.maxImpactedFiles = 1
    /\ Len(call.result.secondaryChanges) = 1
    /\ call.result.dependencyChecks = <<>>
    /\ \E k \in 1..Len(input.impactAnalysis.impactedFiles) :
          /\ input.impactAnalysis.impactedFiles[k].weight >= input.config.impactThreshold
          /\ input.impactAnalysis.impactedFiles[k].path # "a.js"
          /\ input.impactAnalysis.impactedFiles[k].path
                # call.result.secondaryChanges[1].filePath
    /\ \E k \in 1..Len(input.impactAnalysis.impactedFiles) :
          input.impactAnalysis.impactedFiles[k].weight < input.config.impactThreshold
    /\ \E k \in 1..Len(input.impactAnalysis.dependencyFiles) :
          input.impactAnalysis.dependencyFiles[k].weight >= input.config.impactThreshold

(***************************************************************************)
(* Properties of mapTask (SpecFunctions).                                  *)
(***************************************************************************)
\* C17: every MappingResult mapTask emits has mapping.finalScore =
\* similarity * 0.8 + dependencyScore * 0.2, with the dependencyScore of the
\* same result, whether or not the dependency graph passed in exposes
\* traversal; its confidence is 'high' when that finalScore >= 0.8,
\* 'medium' when >= 0.6, else 'low'.
C17_FinalScore ==
    (call.op = "mapTask" /\ call.outcome.kind = "ok") =>
        \A i \in 1..Len(call.outcome.value) :
            LET mapping == call.outcome.value[i].mapping IN
            /\ mapping.finalScore * 10 = mapping.similarity * 8 + mapping.dependencyScore * 2
            /\ mapping.confidence =
                  IF mapping.finalScore * 10 >= 8 * ScoreUnit THEN "high"
                  ELSE IF mapping.finalScore * 10 >= 6 * ScoreUnit THEN "medium"
                  ELSE "low"

(***************************************************************************)
(* Properties of indexCodebase (SpecIndexer), for the calls that ran with  *)
(* no other call in flight.                                                *)
(***************************************************************************)
\* the calls that have returned and ran alone
DoneAlone == { t \in 1..Len(indexer.tasks) :
                 indexer.tasks[t].pc = "done" /\ indexer.tasks[t].alone }

\* the locations of the files a scan of root comes to: below the root,
\* with every directory from the root down to the file readable
Visited(rootPath, d) ==
    { l \in DOMAIN d :
        /\ FaultOf(d, l) # "readdir"
        /\ Below(l, Location(rootPath))
        /\ \A n \in Len(Location(rootPath))..(Len(l) - 1) :
              FaultOf(d, SubSeq(l, 1, n)) # "readdir" }

\* the entries of index.files for the file at location l
EntriesAt(index, l) ==
    { i \in 1..Len(index.files) : Location(index.files[i].path) = l }

\* the global lists of index name nothing of the file at location l
NothingGlobalAt(index, l) ==
    /\ \A i \in 1..Len(index.functions) : Location(index.functions[i].filePath) # l
    /\ \A i \in 1..Len(index.classes) : Location(index.classes[i].filePath) # l

\* C19: a per-file failure never aborts indexCodebase: a file that cannot
\* be parsed is in index.files with empty function and class lists, a file
\* that cannot be read contributes nothing, an unreadable directory is
\* skipped, and every other file the scan comes to is indexed; the call
\* returns normally.
C19_PerFileFailures ==
    \A t \in DoneAlone :
        LET index == indexer.tasks[t].snapshot
            root == indexer.tasks[t].root
        IN /\ index.isNull = FALSE
           /\ \A l \in DOMAIN disk :
                 IF l \notin Visited(root, disk) \/ FaultOf(disk, l) = "read"
                 THEN EntriesAt(index, l) = {} /\ NothingGlobalAt(index, l)
                 ELSE /\ Cardinality(EntriesAt(index, l)) = 1
                      /\ \A i \in EntriesAt(index, l) :
                            IF FaultOf(disk, l) = "parse"
                            THEN /\ index.files[i].functions = <<>>
                                 /\ index.files[i].classes = <<>>
                                 /\ NothingGlobalAt(index, l)
                            ELSE /\ index.files[i].functions =
                                       [k \in 1..Len(disk[l].declarations) |->
                                           [name |-> disk[l].declarations[k]]]
                                 /\ index.files[i].classes = disk[l].classes

\* a scan of '/r' where a.js cannot be parsed and the directory lib cannot
\* be read: a.js is indexed with empty lists, b.js with its functions
C19_Witness ==
    \E t \in DoneAlone :
        /\ indexer.tasks[t].root.segs = RootSegs
        /\ FaultOf(disk, LocA) = "parse"
        /\ FaultOf(disk, SubSeq(LocLib, 1, 2)) = "readdir"
        /\ Len(indexer.tasks[t].snapshot.files) = 2
        /\ indexer.tasks[t].snapshot.files[1].functions = <<>>
        /\ indexer.tasks[t].snapshot.files[2].functions # <<>>

\* a scan of '/r' where b.js cannot be read: a.js and lib/index.js are indexed
C19_WitnessUnreadableFile ==
    \E t \in DoneAlone :
        /\ indexer.tasks[t].root.segs = RootSegs
        /\ FaultOf(disk, LocB) = "read"
        /\ Len(indexer.tasks[t].snapshot.files) = 2
        /\ Location(indexer.tasks[t].snapshot.files[2].path) = LocLib

\* the per-file lists of `files` under `field`, each entry with the path of
\* its file, one file after the other
Concatenated(files, field) ==
    LET flat[n \in 0..Len(files)] ==
            IF n = 0 THEN <<>>
            ELSE flat[n - 1] \o [k \in 1..Len(files[n][field]) |->
                                    ObjectAssign(files[n][field][k],
                                                 [filePath |-> files[n].path])]
    IN flat[Len(files)]

\* C20: the index is rebuilt wholesale. After indexCodebase(p1) and then
\* indexCodebase(p2), not overlapping, the second index holds exactly the
\* scan of p2, its global function and class lists are the concatenation of
\* the per-file lists, its metadata counts are the lengths of its lists,
\* and the index object the first call returned is not modified by the second.
C20_RebuiltWholesale ==
    \A t1 \in DoneAlone :
        /\ indexer.heap[indexer.tasks[t1].returned] = indexer.tasks[t1].snapshot
        /\ \A t2 \in DoneAlone :
              t1 < t2 =>
                 LET second == indexer.tasks[t2].snapshot
                     root == indexer.tasks[t2].root
                 IN /\ indexer.tasks[t1].returned # indexer.tasks[t2].returned
                    /\ { Location(second.files[i].path) : i \in 1..Len(second.files) }
                          = { l \in Visited(root, disk) : FaultOf(disk, l) # "read" }
                    /\ \A i, j \in 1..Len(second.files) :
                          second.files[i].path = second.files[j].path => i = j
                    /\ second.functions = Concatenated(second.files, "functions")
                    /\ second.classes = Concatenated(second.files, "classes")
                    /\ second.metadata.totalFiles = Len(second.files)
                    /\ second.metadata.totalFunctions = Len(second.functions)
                    /\ second.metadata.totalClasses = Len(second.classes)

\* indexCodebase('/r') has returned an index with functions, and then
\* indexCodebase('/r/lib') one with fewer files
C20_Witness ==
    /\ DoneAlone = {1, 2}
    /\ indexer.tasks[1].root.segs = RootSegs
    /\ indexer.tasks[2].root.segs = SubSeq(LocLib, 1, 2)
    /\ indexer.tasks[1].snapshot.functions # <<>>
    /\ Len(indexer.tasks[2].snapshot.files) = 1
    /\ Len(indexer.tasks[1].snapshot.files) = 3
    /\ indexer.heap[indexer.tasks[1].returned].metadata.totalFiles = 3

(***************************************************************************)
(* Further properties of the dependency graph (Spec).                      *)
(***************************************************************************)
\* the edges of G that touch node m
EdgesAt(G, m) ==
    { i \in 1..Len(G.edges) : G.edges[i].source = m \/ G.edges[i].target = m }

\* C21: getNodeDependencies with direction 'both' follows edges in both
\* directions: a node whose only link to the start node is an edge pointing
\* at the start node is returned at depth 1, as is a node reached by an
\* outgoing edge (when the edge passes the type filter, the depth is at
\* least 1 and maxResults is not reached).
C21_BothDirections ==
    ( /\ Traversed
      /\ call.config.direction = "both"
      /\ call.config.depth >= 1
      /\ Len(call.result) < call.config.maxResults )
    => \A m \in DOMAIN dependencyGraph.nodes :
          ( /\ m # call.nodeId
            /\ Cardinality(EdgesAt(dependencyGraph, m)) = 1
            /\ \E i \in EdgesAt(dependencyGraph, m) :
                  LET e == dependencyGraph.edges[i] IN
                  /\ {e.source, e.target} = {m, call.nodeId}
                  /\ call.config.types.isNull \/ Includes(call.config.types.list, e.type) )
          => \E k \in 1..Len(call.result) :
                call.result[k].id = m /\ call.result[k].depth = 1

\* C22: re-adding an edge with an existing (source, target, type) merges
\* its metadata by accumulating weight: an addEdge with weight 1 for a
\* triple that is stored makes the weight of the stored edge one larger, so
\* that k insertions with weight 1 leave weight k.
C22_WeightAccumulates ==
    (AddedEdge /\ "weight" \in DOMAIN call.metadata) =>
        \A i \in 1..Len(call.before.edges) :
            Triple(call.before.edges[i]) = <<call.sourceId, call.targetId, call.type>>
            => dependencyGraph.edges[i].metadata.weight
                  = call.before.edges[i].metadata.weight + call.metadata.weight

(***************************************************************************)
(* Properties of mergeImpactAnalysis (SpecFunctions). The weights the      *)
(* entries should add up to are computed here from the entries themselves. *)
(***************************************************************************)
\* 1 / depth, times the edge-type factor, times the confidence factor of
\* the source element, in units of 1/WeightUnit
NodeShare(entry) ==
    LET edge == CASE entry.node.edge.type = "calls" -> 15
                  [] entry.node.edge.type \in { "imports", "requires" } -> 12
                  [] entry.node.edge.type = "contains" -> 8
                  [] OTHER -> 10
        confidence == CASE entry.element.confidence = "high" -> 12
                        [] entry.element.confidence = "low" -> 8
                        [] OTHER -> 10
    IN (WeightUnit * edge * confidence) \div (entry.node.depth * 100)

\* 1 / depth, times the factor of the type of the entry's node
FileShare(entry) ==
    LET type == CASE entry.node.node.type = "function" -> 12
                  [] entry.node.node.type = "class" -> 15
                  [] entry.node.node.type = "method" -> 13
                  [] OTHER -> 10
    IN (WeightUnit * type) \div (entry.node.depth * 10)

\* the file of the node of an entry
FilePathOf(entry) ==
    IF entry.node.node.type = "file" THEN entry.node.node.path
    ELSE entry.node.node.filePath

\* `nodes` and `files` are the merge of `entries`: every node and every file
\* of an entry is there once, a node with the sum of the node shares of its
\* entries, a file with the sum of share(entry) over the entries that are
\* the first of their (file, element) pair
MergedFrom(entries, nodes, files, share(_)) ==
    LET ids == { entries[i].node.id : i \in 1..Len(entries) }
        paths == { FilePathOf(entries[i]) : i \in 1..Len(entries) }
        First(i) == \A j \in 1..(i - 1) :
                       \/ entries[j].node.id # entries[i].node.id
                       \/ FilePathOf(entries[j]) # FilePathOf(entries[i])
        nodeShares == [i \in 1..Len(entries) |-> NodeShare(entries[i])]
        fileShares == [i \in 1..Len(entries) |-> share(entries[i])]
    IN /\ { nodes[k].node.id : k \in 1..Len(nodes) } = ids
       /\ Len(nodes) = Cardinality(ids)
       /\ \A k \in 1..Len(nodes) :
             nodes[k].weight
                = SumOver(nodeShares, { i \in 1..Len(entries) :
                                          entries[i].node.id = nodes[k].node.id })
       /\ { files[k].path : k \in 1..Len(files) } = paths
       /\ Len(files) = Cardinality(paths)
       /\ \A k \in 1..Len(files) :
             files[k].weight
                = SumOver(fileShares, { i \in 1..Len(entries) :
                                          FilePathOf(entries[i]) = files[k].path /\ First(i) })

MergedWith(share(_)) ==
    call.op = "mergeImpactAnalysis" =>
        LET impacted == EntriesOf(input.impactResults, "impactedNodes")
            dependency == EntriesOf(input.impactResults, "dependencyNodes")
        IN /\ MergedFrom(impacted, call.result.impactedNodes,
                         call.result.impactedFiles, share)
           /\ MergedFrom(dependency, call.result.dependencyNodes,
                         call.result.dependencyFiles, share)
           /\ call.result.totalImpactScore
                 = SumOver([i \in 1..Len(impacted) |-> NodeShare(impacted[i])],
                           1..Len(impacted))

\* C23: in mergeImpactAnalysis the weight a traversal entry contributes,
\* both to its node's accumulated weight and to its file's accumulated
\* weight, is 1 divided by the entry's depth, times the edge-type factor
\* (calls 1.5, imports/requires 1.2, contains 0.8, others 1), times the
\* source element's confidence factor (high 1.2, medium 1.0, low 0.8); a
\* (file, element) pair already counted adds nothing to the file weight;
\* totalImpactScore is the sum of all impacted-node weights.
C23_EntryWeights == MergedWith(NodeShare)

\* C23 as the code has it: to its node's weight an entry contributes as
\* above; to its file's weight it contributes 1 divided by its depth times
\* the factor of its node's type (function 1.2, class 1.5, method 1.3,
\* file and others 1), whatever the edge type and the confidence; a
\* (file, element) pair already counted adds nothing to the file weight;
\* totalImpactScore is the sum of all impacted-node weights.
C23_EntryWeightsByNodeType == MergedWith(FileShare)

\* two elements are modified and both are called by baz: baz is met twice,
\* its node weight adds up and its file b.js counts it once
C23_Witness ==
    /\ call.op = "mergeImpactAnalysis"
    /\ Len(input.impactResults) = 2
    /\ \E k \in 1..Len(call.result.impactedNodes) :
          /\ call.result.impactedNodes[k].node.id = FunctionId("b.js", "baz")
          /\ Len(call.result.impactedNodes[k].sources) = 2
    /\ \E k \in 1..Len(call.result.impactedFiles) :
          /\ call.result.impactedFiles[k].path = "b.js"
          /\ Len(call.result.impactedFiles[k].elements) = 2
    /\ call.result.totalImpactScore > 2 * WeightUnit

(***************************************************************************)
(* Properties of analyzeCodebase (SpecFunctions).                          *)
(***************************************************************************)
\* C24: in analyzeCodebase no element's vector is computed before every
\* file, function and class of the code index has been registered as a
\* document of the TF-IDF corpus, so the vectors of all elements are
\* weighted against the same complete corpus.
C24_VectorsAfterCorpus ==
    call.op = "analyzeCodebase" =>
        LET events == call.result.events
            all == FileDocuments(input.codeIndex) \o FunctionDocuments(input.codeIndex)
                   \o ClassDocuments(input.codeIndex)
        IN /\ \A k \in 1..Len(events) :
                 events[k].op = "vector"
                 => \A d \in 1..Len(all) :
                       \E j \in 1..(k - 1) :
                           events[j].op = "addDocument" /\ events[j].id = all[d].id
           /\ \A v \in 1..Len(call.result.vectors) :
                 \A t \in DOMAIN call.result.vectors[v].vector :
                     call.result.vectors[v].vector[t].documents = Len(all)

(***************************************************************************)
(* Completeness of the impact analysis (SpecFunctions).                    *)
(***************************************************************************)
\* the nodes other than n that a path of 1..d edges of the given direction
\* leads to from n, read off the edge list independently of the traversal
ReachableWithin(G, n, d, direction) ==
    LET config == [Defaults EXCEPT !.direction = direction] IN
    UNION { WalkEnds(G, {n}, k, config) : k \in 1..d } \ {n}

IdsOf(dependencies) == { dependencies[k].id : k \in 1..Len(dependencies) }

ImpactAnalysed == call.op = "getImpactAnalysis"

\* C25: getImpactAnalysis reports as impactedNodes exactly the nodes that
\* reach the node by at most maxDepth edges and as dependencyNodes exactly
\* the nodes it reaches by at most maxDepth edges, and the two scores are
\* the sizes of these sets (maxResults, 100, is never reached here).
C25_CompleteWithinDepth ==
    ImpactAnalysed =>
        LET incoming == ReachableWithin(input.graph, input.nodeId,
                                        input.config.maxDepth, "incoming")
            outgoing == ReachableWithin(input.graph, input.nodeId,
                                        input.config.maxDepth, "outgoing")
        IN /\ IdsOf(call.result.impactedNodes) = incoming
           /\ IdsOf(call.result.dependencyNodes) = outgoing
           /\ call.result.impactScore = Cardinality(incoming)
           /\ call.result.dependencyScore = Cardinality(outgoing)

\* the part of C25 about which nodes are reported, leaving the scores aside
C25_EveryReachableNodeReported ==
    ImpactAnalysed =>
        /\ ReachableWithin(input.graph, input.nodeId, input.config.maxDepth, "incoming")
               \subseteq IdsOf(call.result.impactedNodes)
        /\ ReachableWithin(input.graph, input.nodeId, input.config.maxDepth, "outgoing")
               \subseteq IdsOf(call.result.dependencyNodes)

(***************************************************************************)
(* predictChanges on graph objects without getImpactAnalysis               *)
(* (SpecFunctions).                                                        *)
(***************************************************************************)
PredictedChanges == call.op = "ChangePredictor.predictChanges"

\* C26: predictChanges with a graph object that has neither getImpactAnalysis
\* nor getNodeDependencies returns, for every element, empty node lists and
\* scores 0, a totalImpactScore of 0, no secondaryChanges, no
\* dependencyChecks and the risk level 'low'; with a graph object that has
\* getNodeDependencies only, every element gets the nodes within two edges
\* of it, incoming as impactedNodes and outgoing as dependencyNodes.
C26_CapabilityGaps ==
    PredictedChanges =>
        LET plan == call.result.changePlan IN
        /\ Len(call.impactResults) = Len(input.mappingResults)
        /\ ~input.traverses =>
              /\ \A i \in 1..Len(call.impactResults) :
                    LET impact == call.impactResults[i].impact IN
                    /\ impact.impactedNodes = <<>> /\ impact.dependencyNodes = <<>>
                    /\ impact.impactScore = 0 /\ impact.dependencyScore = 0
              /\ call.result.impactAnalysis.totalImpactScore = 0
              /\ plan.secondaryChanges = <<>>
              /\ plan.dependencyChecks = <<>>
              /\ plan.impactSummary.riskLevel = "low"
        /\ input.traverses =>
              \A i \in 1..Len(call.impactResults) :
                  LET impact == call.impactResults[i].impact
                      id == call.impactResults[i].element.id
                  IN /\ IdsOf(impact.impactedNodes)
                          = ReachableWithin(input.graph, id, 2, "incoming")
                     /\ IdsOf(impact.dependencyNodes)
                          = ReachableWithin(input.graph, id, 2, "outgoing")

\* a graph object without either method whose graph has a caller of the
\* mapped function
C26_Witness ==
    /\ PredictedChanges
    /\ ~input.traverses
    /\ \E i \in 1..Len(call.impactResults) :
          ReachableWithin(input.graph, call.impactResults[i].element.id, 1, "incoming") # {}
    /\ call.result.changePlan.primaryChanges # <<>>

\* a graph object with getNodeDependencies only, and a node found two edges
\* away from the mapped function
C26_WitnessTraversed ==
    /\ PredictedChanges
    /\ input.traverses
    /\ \E i \in 1..Len(call.impactResults) :
          \E k \in 1..Len(call.impactResults[i].impact.impactedNodes) :
              call.impactResults[i].impact.impactedNodes[k].depth = 2

(***************************************************************************)
(* The predictor behind the engine (SpecEngine).                           *)
(***************************************************************************)
\* the calls edges of the engine's graph that end in a mapped function
CallsInto(G, mappingResults) ==
    { i \in 1..Len(G.edges) :
        /\ G.edges[i].type = "calls"
        /\ \E r \in 1..Len(mappingResults) :
              G.edges[i].target = GetElementId(mappingResults[r].codeElement) }

\* C27: after initialize, engine.predictChanges on mapping results whose
\* function has a caller in the graph reports the caller among
\* impactAnalysis.impactedNodes and the caller's file among impactedFiles.
C27_CallersReported ==
    (call.op = "predictChanges" /\ call.outcome = Ok) =>
        LET G == call.engineBefore.dependencyGraph
            impact == call.value.impactAnalysis
        IN \A i \in CallsInto(G, call.mappingResults) :
              /\ \E k \in 1..Len(impact.impactedNodes) :
                    impact.impactedNodes[k].node.id = G.edges[i].source
              /\ \E k \in 1..Len(impact.impactedFiles) :
                    impact.impactedFiles[k].path = G.nodes[G.edges[i].source].filePath

(***************************************************************************)
(* combineSearchResults (SpecFunctions).                                   *)
(***************************************************************************)
Combined == call.op = "combineSearchResults"

\* the code elements found by at least one of the queries
FoundElements(resultSets) ==
    UNION { { [type |-> resultSets[i].results[k].type,
               item |-> resultSets[i].results[k].item] :
                k \in 1..Len(resultSets[i].results) } :
            i \in 1..Len(resultSets) }

\* the sum, over the result sets that found `element`, of the weight of the
\* set times the numerator of the element's similarity there (weighted) or
\* of the weight alone
RECURSIVE SumOverSets(_, _, _)
SumOverSets(resultSets, element, weighted) ==
    IF resultSets = <<>> THEN 0
    ELSE LET set == Head(resultSets)
             hits == { k \in 1..Len(set.results) :
                         /\ set.results[k].type = element.type
                         /\ set.results[k].item = element.item }
             similarity == set.results[CHOOSE k \in hits : TRUE].similarity
         IN (IF hits = {} THEN 0
             ELSE IF weighted THEN set.weight * similarity.num ELSE set.weight)
            + SumOverSets(Tail(resultSets), element, weighted)

\* C28: combineSearchResults returns exactly one entry for every code
\* element found by any of the three queries, and the entry's similarity
\* is the weighted average sum(w_i * s_i) / sum(w_i) over the queries that
\* found the element.
C28_OneEntryPerElement ==
    Combined =>
        LET elements == FoundElements(input.resultSets)
        IN /\ Len(call.result) = Cardinality(elements)
           /\ \A e \in elements :
                 \E k \in 1..Len(call.result) :
                    /\ call.result[k].type = e.type /\ call.result[k].item = e.item
                    /\ call.result[k].similarity.num * 10
                            * SumOverSets(input.resultSets, e, FALSE)
                         = call.result[k].similarity.den
                            * SumOverSets(input.resultSets, e, TRUE)

(***************************************************************************)
(* The engine's index and the structures derived from it (SpecEngine).     *)
(***************************************************************************)
\* the nodes buildDependencyGraph makes for a code index
NodesBuiltFrom(codeIndex) ==
    AddClassesToGraph(
        AddFunctionsToGraph(AddFilesToGraph(EmptyGraph, codeIndex.files),
                            codeIndex.functions),
        codeIndex.classes).nodes

\* the semantic index and the engine's graph come from index e.codeIndex
DerivedFromIndex(e) ==
    /\ ~e.dependencyGraph.isNull
    /\ e.dependencyGraph.nodes = NodesBuiltFrom(e.codeIndex)
    /\ semanticIndex = AnalyzeCodebaseOf(e.codeIndex)

\* C29: in every state of the engine, also while an initialize call is in
\* flight, codeIndex is non-null only if the semantic index and the
\* dependency graph the engine holds were built from that codeIndex; a
\* mapTaskToCode call that passes the initialization check therefore finds
\* a graph.
C29_IndexImpliesDerived ==
    /\ ~engine.codeIndex.isNull => DerivedFromIndex(engine)
    /\ (call.op = "mapTaskToCode"
            /\ call.outcome # Error("Code mapping engine not initialized"))
          => ~call.engineBefore.dependencyGraph.isNull

(***************************************************************************)
(* SpecTraversal: one getNodeDependencies call, frame by frame. `call`     *)
(* holds the call stack of getDependenciesRecursive (the innermost frame   *)
(* last), the visited Set and the dependencies array.                      *)
(***************************************************************************)
\* graphs with a self-call, a call cycle, two files that import each other
\* and a file that contains a function: any of the edges of the pool, in
\* its order
CyclicEdgePool ==
    <<[source |-> FunctionId("a.js", "foo"), target |-> FunctionId("a.js", "foo"),
       type |-> "calls"],
      [source |-> FunctionId("a.js", "foo"), target |-> FunctionId("b.js", "bar"),
       type |-> "calls"],
      [source |-> FunctionId("b.js", "bar"), target |-> FunctionId("a.js", "foo"),
       type |-> "calls"],
      [source |-> FileId("a.js"), target |-> FileId("b.js"), type |-> "imports"],
      [source |-> FileId("b.js"), target |-> FileId("a.js"), type |-> "imports"],
      [source |-> FileId("a.js"), target |-> FunctionId("a.js", "foo"),
       type |-> "contains"]>>

CyclicGraphs ==
    { WithEdges(WithNodes(EmptyGraph,
                          <<FileId("a.js"), FileId("b.js"), FunctionId("a.js", "foo"),
                            FunctionId("b.js", "bar")>>),
                SelectSeq(CyclicEdgePool, LAMBDA e : e \in chosen)) :
        chosen \in SUBSET { CyclicEdgePool[i] : i \in 1..Len(CyclicEdgePool) } }

\* the calls: of a function, of a file or of an id that is no node, with a
\* depth up to MaxTraversalDepth, which is more than the graph has nodes
TraversalInputs ==
    { [of |-> "getNodeDependencies", nodeId |-> n, options |-> o] :
        n \in { FunctionId("a.js", "foo"), FileId("a.js"), FileId("c.js") },
        o \in { [direction |-> d, depth |-> k] :
                   d \in Directions, k \in { 0, 1, 2, MaxTraversalDepth } }
              \cup { [direction |-> d, depth |-> k, maxResults |-> 2] :
                       d \in Directions, k \in { 2, MaxTraversalDepth } } }

InitTraversal ==
    /\ dependencyGraph \in CyclicGraphs
    /\ call = NoCall
    /\ disk = EmptyObject
    /\ engineConfig = [includeNodeModules |-> FALSE]
    /\ engine = [codeIndex |-> Undefined, dependencyGraph |-> Undefined]
    /\ semanticIndex = [files |-> {}, functions |-> {}, classes |-> {}]
    /\ globalSemanticAnalyzer = Undefined
    /\ init = [pc |-> "idle", calls |-> 0, completed |-> 0]
    /\ input \in TraversalInputs
    /\ indexer = IndexerIdle

Running == call.op = "getNodeDependencies" /\ call.pc = "running"
InFrame == Running /\ call.stack # <<>>
Top == call.stack[Len(call.stack)]
Popped == SubSeq(call.stack, 1, Len(call.stack) - 1)
Entered(nodeId, currentDepth) ==
    [nodeId |-> nodeId, currentDepth |-> currentDepth, pc |-> "enter",
     filteredEdges |-> <<>>, i |-> 0]

\* the for loop's step to the next edge
NextEdge_Stays(i) == i

NextEdge(i) == i + 1

\* getNodeDependencies up to its call of getDependenciesRecursive
StartTraversal ==
    /\ call = NoCall
    /\ call' = [made |-> TRUE, op |-> "getNodeDependencies", pc |-> "running",
                config |-> ObjectAssign(Defaults, input.options),
                stack |-> IF HasNode(dependencyGraph, input.nodeId)
                          THEN <<Entered(input.nodeId, 0)>> ELSE <<>>,
                visited |-> {}, dependencies |-> <<>>]
    /\ UNCHANGED <<dependencyGraph, engineVars>>

\* the frame returns at the depth check
ReturnAtDepthLimit ==
    /\ InFrame /\ Top.pc = "enter"
    /\ DepthLimitReached(Top.currentDepth, call.config)
    /\ call' = [call EXCEPT !.stack = Popped]
    /\ UNCHANGED <<dependencyGraph, engineVars>>

\* the frame marks its node visited and filters the edges
EnterFrame ==
    /\ InFrame /\ Top.pc = "enter"
    /\ ~DepthLimitReached(Top.currentDepth, call.config)
    /\ call' = [call EXCEPT
                   !.visited = @ \cup {Top.nodeId},
                   !.stack[Len(call.stack)] =
                       [Top EXCEPT !.pc = "loop", !.i = 1,
                                   !.filteredEdges =
                                       RelatedEdges(dependencyGraph, Top.nodeId,
                                                    call.config)]]
    /\ UNCHANGED <<dependencyGraph, engineVars>>

AtEdge == InFrame /\ Top.pc = "loop" /\ Top.i <= Len(Top.filteredEdges)
EdgeTarget == TargetId(Top.filteredEdges[Top.i], call.config)
Skipped == EdgeTarget \in call.visited \/ ~HasNode(dependencyGraph, EdgeTarget)
WithDependency ==
    Append(call.dependencies,
           [id |-> EdgeTarget, node |-> dependencyGraph.nodes[EdgeTarget],
            edge |-> Top.filteredEdges[Top.i], depth |-> Top.currentDepth + 1])

\* `continue`: the target is visited or is no node
SkipEdge ==
    /\ AtEdge /\ Skipped
    /\ call' = [call EXCEPT !.stack[Len(call.stack)].i = NextEdge(Top.i)]
    /\ UNCHANGED <<dependencyGraph, engineVars>>

\* the push fills the array up to maxResults: the frame returns
StopAtMaxResults ==
    /\ AtEdge /\ ~Skipped
    /\ Len(WithDependency) >= call.config.maxResults
    /\ call' = [call EXCEPT !.dependencies = WithDependency, !.stack = Popped]
    /\ UNCHANGED <<dependencyGraph, engineVars>>

\* the push, and the recursive call for the target; the frame goes on with
\* its next edge when that call has returned
Descend ==
    /\ AtEdge /\ ~Skipped
    /\ Len(WithDependency) < call.config.maxResults
    /\ call' = [call EXCEPT
                   !.dependencies = WithDependency,
                   !.stack = Append([call.stack EXCEPT
                                        ![Len(call.stack)].i = NextEdge(Top.i)],
                                    Entered(EdgeTarget, Top.currentDepth + 1))]
    /\ UNCHANGED <<dependencyGraph, engineVars>>

\* the for loop is over: the frame returns
LeaveFrame ==
    /\ InFrame /\ Top.pc = "loop" /\ Top.i > Len(Top.filteredEdges)
    /\ call' = [call EXCEPT !.stack = Popped]
    /\ UNCHANGED <<dependencyGraph, engineVars>>

\* getNodeDependencies returns the array
FinishTraversal ==
    /\ Running /\ call.stack = <<>>
    /\ call' = [call EXCEPT !.pc = "done"] @@ [result |-> call.dependencies]
    /\ UNCHANGED <<dependencyGraph, engineVars>>

NextTraversal ==
    \/ StartTraversal
    \/ ReturnAtDepthLimit
    \/ EnterFrame
    \/ SkipEdge
    \/ StopAtMaxResults
    \/ Descend
    \/ LeaveFrame
    \/ FinishTraversal

\* the call is synchronous: once started it runs on until it returns
SpecTraversal == InitTraversal /\ [][NextTraversal]_vars /\ WF_vars(NextTraversal)

(***************************************************************************)
(* Termination of getNodeDependencies (SpecTraversal).                     *)
(***************************************************************************)
TraversalReturned == call.op = "getNodeDependencies" /\ call.pc = "done"

\* C30: every getNodeDependencies call returns, whatever the graph (with
\* self-calls, call cycles and mutual imports), the depth (also one above
\* the number of nodes) and the direction.
C30_Terminates == <>TraversalReturned

\* a call with a depth above the number of nodes has returned after it
\* skipped a visited node on a cycle
C30_Witness ==
    /\ TraversalReturned
    /\ call.config.depth > Cardinality(DOMAIN dependencyGraph.nodes)
    /\ call.result # <<>>
    /\ \E k \in 1..Len(call.result) :
          \E i \in 1..Len(dependencyGraph.edges) :
              /\ dependencyGraph.edges[i].source = call.result[k].id
              /\ dependencyGraph.edges[i].target = input.nodeId

\* the frame-by-frame call returns what GetNodeDependenciesOf computes
StepwiseAgrees ==
    TraversalReturned =>
        call.result = GetNodeDependenciesOf(dependencyGraph, input.nodeId, input.options)

====
